---- MODULE Spec2Model ----
(***************************************************************************)
(* wf_overlay: the capture-to-structured-text pipeline.                    *)
(*                                                                         *)
(*   cap.rs   the capacity-one frame / metadata channels, the pipewire     *)
(*            producer callbacks, LatestImage and the pixel conversion     *)
(*   config.rs  the layout selection                                       *)
(*   ocr.rs   the single-in-flight OCR task (start_ocr_task,               *)
(*            get_ocr_result, detect_once)                                 *)
(*   main.rs  the AppState / PlatOverlayPhase state machine, keybinds,     *)
(*            display_plat and the delayed close                           *)
(*                                                                         *)
(* Spec and FairSpec are the running app.  FnSpec is one call of one       *)
(* function of cap.rs, config.rs or ocr.rs on arguments drawn from small   *)
(* sets, for the properties of the functions on their own.                 *)
(*                                                                         *)
(* Option<T> is modelled as a sequence of length at most one:              *)
(* None is <<>> and Some(x) is <<x>>.                                      *)
(***************************************************************************)
EXTENDS Integers, Sequences, FiniteSets, TLC

None == << >>
Some(x) == << x >>

\* ------------------------------------------------------------------ bounds

\* Frames the capture producer delivers in one run.
MaxFrames == 2
\* Format negotiations (param_changed callbacks) in one run.
MaxMetas == 1
\* OCR tasks spawned in one run.
MaxTasks == 2
\* Delayed close commands pending at once.
MaxDelayed == 2
\* Options in a configuration whose layout is looked up on its own.
MaxLayouts == 3
\* Pixel checks in an option that is matched on its own.
MaxChecks == 2
\* Words in a slice that is clustered on its own.
MaxWords == 3
\* Lines recognize_text returns in one pass.
MaxLines == 3
\* Largest last_fetch value the DataManager is given or hands out.
MaxTime == 2

\* --------------------------------------------------------------- constants

\* bounded(1): the capacity of the frame channel and of the metadata channel.
Capacity == 1
\* get_latest_rgba: a stored buffer shorter than this is "no frame".
MinFrameBytes == 4
\* get_ocr_result: items after index 3 are not spawned.
MaxItemIdx == 3

\* ------------------------------------------------------ cap.rs: conversion

\* A u32 is kept as its two 16-bit halves <<high, low>>.

\* u32::from_be_bytes
FromBeBytes(p) == << p[1] * 256 + p[2], p[3] * 256 + p[4] >>

\* u32::to_be_bytes
ToBeBytes(v) == << v[1] \div 256, v[1] % 256, v[2] \div 256, v[2] % 256 >>

\* u32::swap_bytes: the four bytes in reverse order.
SwapBytes(v) ==
  << (v[2] % 256) * 256 + (v[2] \div 256), (v[1] % 256) * 256 + (v[1] \div 256) >>

\* A rotation by 16 bits instead of 8.
RotateLeft16(v) == << v[2], v[1] >>

\* u32::rotate_left(8): the top byte moves to the bottom.
RotateLeft8(v) ==
  << (v[1] % 256) * 256 + (v[2] \div 256), (v[2] % 256) * 256 + (v[1] \div 256) >>

\* The body of the loop of from_raw_bgra, for one 4-byte chunk.
ConvertChunk(p) == ToBeBytes(RotateLeft8(SwapBytes(FromBeBytes(p))))

\* The length check of RgbaImage::from_raw: the container must hold at least
\* width * height * 4 bytes.  (The stream negotiates sizes of at most
\* 4096 x 4096, so the product does not overflow usize.)
ImageFits(width, height, len) == width * height * 4 <= len

\* A from_raw that accepts any container.
FromRawUnchecked(width, height, container) ==
  Some([width |-> width, height |-> height, data |-> container])

\* RgbaImage::from_raw(width, height, container)
FromRaw(width, height, container) ==
  IF ImageFits(width, height, Len(container))
  THEN Some([width |-> width, height |-> height, data |-> container])
  ELSE None

\* as_chunks_mut::<4>() and the loop over the chunks: every complete 4-byte
\* chunk of the buffer is converted, a remainder of fewer than 4 bytes is left.
ConvertAll(data) ==
  [i \in 1..Len(data) |->
     IF i <= 4 * (Len(data) \div 4)
     THEN LET c == (i - 1) \div 4
          IN  ConvertChunk(SubSeq(data, 4 * c + 1, 4 * c + 4))[((i - 1) % 4) + 1]
     ELSE data[i]]

\* from_raw_bgra(width, height, container)
from_raw_bgra(width, height, container) ==
  LET img == FromRaw(width, height, container)
  IN  IF img = None THEN None
      ELSE Some([img[1] EXCEPT !.data = ConvertAll(img[1].data)])

\* A get_latest_rgba that copies the stored buffer instead of taking it.
get_latest_rgba_copy(buf, meta) ==
  IF Len(buf) < MinFrameBytes THEN [img |-> None, buf |-> buf]
  ELSE CASE meta.format \in {"Bgra", "BGRx"} ->
              [img |-> from_raw_bgra(meta.width, meta.height, buf), buf |-> buf]
         [] meta.format \in {"Rgba", "RGBx"} ->
              [img |-> FromRaw(meta.width, meta.height, buf), buf |-> buf]
         [] OTHER -> [img |-> None, buf |-> buf]

\* A get_latest_rgba without the test for a buffer of fewer than 4 bytes.
get_latest_rgba_any_len(buf, meta) ==
  CASE meta.format \in {"Bgra", "BGRx"} ->
         [img |-> from_raw_bgra(meta.width, meta.height, buf), buf |-> << >>]
    [] meta.format \in {"Rgba", "RGBx"} ->
         [img |-> FromRaw(meta.width, meta.height, buf), buf |-> << >>]
    [] OTHER -> [img |-> None, buf |-> buf]

\* LatestImage::get_latest_rgba on the stored buffer and metadata: the image
\* it returns, and the buffer it leaves stored (std::mem::take leaves an
\* empty Vec).
get_latest_rgba(buf, meta) ==
  IF Len(buf) < MinFrameBytes THEN [img |-> None, buf |-> buf]
  ELSE CASE meta.format \in {"Bgra", "BGRx"} ->
              [img |-> from_raw_bgra(meta.width, meta.height, buf), buf |-> << >>]
         [] meta.format \in {"Rgba", "RGBx"} ->
              [img |-> FromRaw(meta.width, meta.height, buf), buf |-> << >>]
         [] OTHER -> [img |-> None, buf |-> buf]

\* --------------------------------------------------- config.rs: selection

\* RgbaImage::get_pixel(x, y): the 4 bytes of the pixel, row-major.  It
\* panics when (x, y) is outside the image, which is the empty sequence here.
GetPixel(image, x, y) ==
  LET base == (y * image.width + x) * 4
  IN  IF x >= image.width \/ y >= image.height THEN << >>
      ELSE SubSeq(image.data, base + 1, base + 4)

\* A matches_pixel that asks for equality whatever the tolerance.
matches_pixel_exact(check, pixel) == check.color = pixel

\* ------------------------------------------------ f32 arithmetic (IEEE 754)

\* A finite non-negative f32 is [m, e]: the value m * 2^e, m = 0 or
\* 2^23 <= m < 2^24 (24 significant bits).  Every operation rounds its exact
\* result to the nearest such value, ties to the even m.  The values met here
\* (channels in 0..1, their differences, squares and sums, and tolerances)
\* stay far from the subnormal range and from overflow, so e is unbounded.

F32Zero == [m |-> 0, e |-> 0]

\* The f32 nearest to (m + rem/unit) * 2^e, where 2^23 <= m < 2^24 and
\* 0 <= rem < unit: round to nearest, ties to even.
F32RoundAt(m, e, rem, unit) ==
  LET up == 2 * rem > unit \/ (2 * rem = unit /\ m % 2 = 1)
      r == IF up THEN m + 1 ELSE m
  IN  IF r = 16777216 THEN [m |-> 8388608, e |-> e + 1] ELSE [m |-> r, e |-> e]

\* The f32 nearest to (s + rem/unit) * 2^e for s >= 2^23.
RECURSIVE F32Round(_, _, _, _)
F32Round(s, e, rem, unit) ==
  IF s >= 16777216
  THEN F32Round(s \div 2, e + 1, (s % 2) * unit + rem, 2 * unit)
  ELSE F32RoundAt(s, e, rem, unit)

\* Long division: the quotient bits of r / d after those in q, until q has
\* 24 bits; r < d.
RECURSIVE F32DivBits(_, _, _, _)
F32DivBits(q, r, d, e) ==
  IF q >= 8388608 THEN F32RoundAt(q, e, r, d)
  ELSE IF 2 * r >= d THEN F32DivBits(2 * q + 1, 2 * r - d, d, e - 1)
       ELSE F32DivBits(2 * q, 2 * r, d, e - 1)

\* The f32 nearest to n / d for integers 0 <= n and 0 < d < 2^29: what
\* `n as f32 / d as f32` gives when n and d are f32 values, and what parsing
\* the decimal n/d gives.
F32Ratio(n, d) ==
  IF n = 0 THEN F32Zero
  ELSE IF n \div d >= 16777216 THEN F32Round(n \div d, 0, n % d, d)
  ELSE F32DivBits(n \div d, n % d, d, 0)

\* a <= b
F32Le(a, b) ==
  \/ a.m = 0
  \/ /\ b.m # 0
     /\ \/ a.e < b.e
        \/ (a.e = b.e /\ a.m <= b.m)

\* b.m with three more bits, shifted right by k bits; the last bit is set
\* when a bit that was shifted out is (the sticky bit).
F32Aligned(m, k) ==
  IF k = 0 THEN 8 * m
  ELSE IF k >= 27 THEN (IF m = 0 THEN 0 ELSE 1)
  ELSE LET p == 2 ^ k
       IN  2 * ((4 * m) \div p) + (IF (4 * m) % p = 0 THEN 0 ELSE 1)

\* s with eight units per unit of 2^e, its last bit sticky, brought to 24
\* bits and rounded.
RECURSIVE F32RoundSticky(_, _)
F32RoundSticky(s, e) ==
  IF s = 0 THEN F32Zero
  ELSE IF s >= 134217728
       THEN F32RoundSticky((s \div 2) + (IF s % 2 = 1 /\ (s \div 2) % 2 = 0 THEN 1 ELSE 0),
                           e + 1)
  ELSE IF s < 67108864 THEN F32RoundSticky(2 * s, e - 1)
  ELSE F32RoundAt(s \div 8, e, s % 8, 8)

\* a + b
F32Add(a, b) ==
  IF a.m = 0 THEN b
  ELSE IF b.m = 0 THEN a
  ELSE LET big == IF F32Le(b, a) THEN a ELSE b
           small == IF F32Le(b, a) THEN b ELSE a
       IN  F32RoundSticky(8 * big.m + F32Aligned(small.m, big.e - small.e), big.e)

\* |a - b|: the magnitude of a - b and of b - a.
F32AbsDiff(a, b) ==
  IF a.m = 0 THEN b
  ELSE IF b.m = 0 THEN a
  ELSE LET big == IF F32Le(b, a) THEN a ELSE b
           small == IF F32Le(b, a) THEN b ELSE a
       IN  F32RoundSticky(8 * big.m - F32Aligned(small.m, big.e - small.e), big.e)

\* a * b: the 48-bit product of the two significands, from their 12-bit
\* halves, rounded.
F32Mul(a, b) ==
  IF a.m = 0 \/ b.m = 0 THEN F32Zero
  ELSE LET ah == a.m \div 4096
           al == a.m % 4096
           bh == b.m \div 4096
           bl == b.m % 4096
           mid == ah * bl + al * bh
           low == al * bl + (mid % 4096) * 4096
           hi == ah * bh + (mid \div 4096) + (low \div 16777216)
           lo == low % 16777216
       IN  IF hi >= 8388608
           THEN F32RoundAt(hi, a.e + b.e + 24, lo, 16777216)
           ELSE F32RoundAt(2 * hi + (lo \div 8388608), a.e + b.e + 23,
                           lo % 8388608, 8388608)

\* The square root digit by digit: q is the root of the bits taken so far
\* and r what is left of them; `pairs` pairs of bits are still to come, the
\* first `Len(bits)` of them from bits and zeros after that.
RECURSIVE F32SqrtBits(_, _, _, _)
F32SqrtBits(q, r, bits, pairs) ==
  IF pairs = 0 THEN << q, r >>
  ELSE LET next == IF bits = << >> THEN 0 ELSE Head(bits)
           rest == IF bits = << >> THEN bits ELSE Tail(bits)
           rr == 4 * r + next
           trial == 4 * q + 1
       IN  IF rr >= trial THEN F32SqrtBits(2 * q + 1, rr - trial, rest, pairs - 1)
           ELSE F32SqrtBits(2 * q, rr, rest, pairs - 1)

\* The 13 pairs of bits of a number below 2^26, highest first.
PairsOf(n) == [k \in 1..13 |-> (n \div (4 ^ (13 - k))) % 4]

\* sqrt(a): the significand is made 25 or 26 bits long over an even
\* exponent; its root is taken to 25 bits and rounded to 24, with what is
\* left as the sticky bit.
F32Sqrt(a) ==
  IF a.m = 0 THEN F32Zero
  ELSE LET odd == a.e % 2 # 0
           n == IF odd THEN 2 * a.m ELSE 4 * a.m
           e == IF odd THEN a.e - 1 ELSE a.e - 2
           qr == F32SqrtBits(0, 0, PairsOf(n), 25)
       IN  F32RoundAt(qr[1] \div 2, (e \div 2) - 11,
                      2 * (qr[1] % 2) + (IF qr[2] = 0 THEN 0 ELSE 1), 4)

\* Srgba::from_u8_array and Srgba::hex: a channel is `c as f32 / 255.0`.
Channel(c) == F32Ratio(c, 255)

\* Srgba's EuclideanDistance::distance_squared: dr * dr + dg * dg + db * db
\* over red, green and blue, in f32.
distance_squared(c1, c2) ==
  LET dr == F32AbsDiff(Channel(c1[1]), Channel(c2[1]))
      dg == F32AbsDiff(Channel(c1[2]), Channel(c2[2]))
      db == F32AbsDiff(Channel(c1[3]), Channel(c2[3]))
  IN  F32Add(F32Add(F32Mul(dr, dr), F32Mul(dg, dg)), F32Mul(db, db))

\* EuclideanDistance::distance: the square root of distance_squared.
distance(c1, c2) == F32Sqrt(distance_squared(c1, c2))

\* PixelCheck::matches_pixel.  Colours are kept as their four u8 channels
\* and the tolerance as the decimal tolerance[1] / tolerance[2] the
\* configuration spells, parsed to the nearest f32.  Tolerance 0 compares
\* the two Srgba values, all four channels; any other compares the f32
\* distance with the f32 tolerance, which no distance is below when the
\* tolerance is negative.
matches_pixel(check, pixel) ==
  IF check.tolerance[1] = 0
  THEN check.color = pixel
  ELSE IF check.tolerance[1] < 0 THEN FALSE
  ELSE F32Le(distance(check.color, pixel),
             F32Ratio(check.tolerance[1], check.tolerance[2]))

\* A small number as a u32: its two 16-bit halves <<high, low>>.
U32(n) == << n \div 65536, n % 65536 >>

\* The exact product of two 16-bit numbers, as <<high, low>>.
MulU16(x, y) ==
  LET mid == (x \div 256) * (y % 256) + (x % 256) * (y \div 256)
      low == (x % 256) * (y % 256) + (mid % 256) * 256
  IN  << (x \div 256) * (y \div 256) + (mid \div 256) + (low \div 65536),
         low % 65536 >>

\* The exact product of two u32, as four 16-bit limbs, highest first.
WideMul(a, b) ==
  LET ll == MulU16(a[2], b[2])
      lh == MulU16(a[2], b[1])
      hl == MulU16(a[1], b[2])
      hh == MulU16(a[1], b[1])
      s1 == ll[1] + lh[2] + hl[2]
      s2 == lh[1] + hl[1] + hh[2] + (s1 \div 65536)
  IN  << hh[1] + (s2 \div 65536), s2 % 65536, s1 % 65536, ll[2] >>

\* u32 `*` without overflow checks: the low 32 bits of the product.
wrapping_mul(a, b) == << WideMul(a, b)[3], WideMul(a, b)[4] >>

\* u32 `*` with overflow checks panics when the product does not fit.
MulOverflows(a, b) == WideMul(a, b)[1] # 0 \/ WideMul(a, b)[2] # 0

\* LayoutOption::aspect_ratio_matches on u32 values, as a build without
\* overflow checks computes it.
aspect_ratio_matches(option, img_width, img_height) ==
  wrapping_mul(option.aspect_ratio[1], img_height)
    = wrapping_mul(option.aspect_ratio[2], img_width)

\* LayoutOption::aspect_ratio_matches in a build with overflow checks: one of
\* its two products panics.
aspect_ratio_overflows(option, img_width, img_height) ==
  \/ MulOverflows(option.aspect_ratio[1], img_height)
  \/ MulOverflows(option.aspect_ratio[2], img_width)

\* verify_pixel_checks' bounds test that looks at x only.
InBoundsXOnly(check, width, height) == check.x < width

\* verify_pixel_checks: the test before get_pixel.
InBounds(check, width, height) == ~(check.x >= width \/ check.y >= height)

\* verify_pixel_checks: the closure given to all(), for one check.
CheckPasses(check, image) ==
  IF ~InBounds(check, image.width, image.height) THEN FALSE
  ELSE LET pixel == GetPixel(image, check.x, check.y)
       IN  pixel # << >> /\ matches_pixel(check, pixel)

\* LayoutOption::verify_pixel_checks
verify_pixel_checks(option, image) ==
  \A i \in 1..Len(option.pixel_checks) : CheckPasses(option.pixel_checks[i], image)

\* The coordinates verify_pixel_checks calls get_pixel with: all() stops at
\* the first check that fails.
PixelReads(option, image) ==
  { << option.pixel_checks[i].x, option.pixel_checks[i].y >> :
      i \in { k \in 1..Len(option.pixel_checks) :
                /\ \A j \in 1..(k - 1) : CheckPasses(option.pixel_checks[j], image)
                /\ InBounds(option.pixel_checks[k], image.width, image.height) } }

\* The aspect-ratio test of LayoutOption::matches, which runs first, as a
\* build without overflow checks computes it.
matches_aspect_only(option, image) ==
  aspect_ratio_matches(
    [aspect_ratio |-> << U32(option.aspect_ratio[1]), U32(option.aspect_ratio[2]) >>],
    U32(image.width), U32(image.height))

\* LayoutOption::matches in a build with overflow checks: the aspect-ratio
\* test, which runs first, panics.
matches_overflows(option, image) ==
  aspect_ratio_overflows(
    [aspect_ratio |-> << U32(option.aspect_ratio[1]), U32(option.aspect_ratio[2]) >>],
    U32(image.width), U32(image.height))

\* LayoutOption::matches, as a build without overflow checks computes it.
matches(option, image) ==
  /\ aspect_ratio_matches(
       [aspect_ratio |-> << U32(option.aspect_ratio[1]), U32(option.aspect_ratio[2]) >>],
       U32(image.width), U32(image.height))
  /\ verify_pixel_checks(option, image)

\* Config::find_all_matching_layouts in a build with overflow checks:
\* filter() tests every option, so it panics when the aspect-ratio test of
\* any option overflows.
find_all_matching_layouts_overflows(config, image) ==
  \E i \in 1..Len(config.layouts) : matches_overflows(config.layouts[i], image)

\* Config::find_matching_layout in a build with overflow checks: find()
\* tests the options in order and stops at the first that matches, so it
\* panics when it reaches an option whose aspect-ratio test overflows.
find_matching_layout_overflows(config, image) ==
  \E i \in 1..Len(config.layouts) :
     /\ matches_overflows(config.layouts[i], image)
     /\ \A j \in 1..(i - 1) : ~matches(config.layouts[j], image)

\* Config::find_all_matching_layouts: the options that match, in order, as
\* a build without overflow checks computes them.
find_all_matching_layouts(config, image) ==
  SelectSeq(config.layouts, LAMBDA option : matches(option, image))

\* Config::find_matching_layout: the Layout of the first option that
\* matches, as a build without overflow checks computes it.
find_matching_layout(config, image) ==
  LET hits == {i \in 1..Len(config.layouts) : matches(config.layouts[i], image)}
  IN  IF hits = {} THEN None
      ELSE Some(config.layouts[CHOOSE i \in hits : \A j \in hits : i <= j].config)

\* ------------------------------------------------------- ocr.rs: bounds

\* A get_ocr_bounds whose factor is rounded up instead of down.
get_ocr_bounds_ceil(layout, img_size) ==
  LET fx == (img_size[1] + layout.reference_resolution[1] - 1)
              \div layout.reference_resolution[1]
      fy == (img_size[2] + layout.reference_resolution[2] - 1)
              \div layout.reference_resolution[2]
      ox == layout.offset[1] * fx
      oy == layout.offset[2] * fy
      sx == layout.size[1] * fx
      sy == layout.size[2] * fy
  IN  [min |-> <<ox, oy>>, max |-> <<ox + sx, oy + sy>>]

\* Layout::get_ocr_bounds(img_size): UVec2 arithmetic, component-wise, with
\* integer division.
get_ocr_bounds(layout, img_size) ==
  LET fx == img_size[1] \div layout.reference_resolution[1]
      fy == img_size[2] \div layout.reference_resolution[2]
      ox == layout.offset[1] * fx
      oy == layout.offset[2] * fy
      sx == layout.size[1] * fx
      sy == layout.size[2] * fy
  IN  [min |-> <<ox, oy>>, max |-> <<ox + sx, oy + sy>>]

Min(a, b) == IF a <= b THEN a ELSE b

\* image::imageops::crop_imm clamps the rectangle to the image; the
\* dimensions of the cropped image.
CropDims(image, bounds) ==
  LET x == Min(bounds.min[1], image.width)
      y == Min(bounds.min[2], image.height)
      w == Min(bounds.max[1] - bounds.min[1], image.width - x)
      h == Min(bounds.max[2] - bounds.min[2], image.height - y)
  IN  <<w, h>>

\* A test that lets every crop through.
CropIsEmptyNever(image, bounds) == FALSE

\* detect_once: the zero-dimension test after the crop.
CropIsEmpty(image, bounds) ==
  CropDims(image, bounds)[1] = 0 \/ CropDims(image, bounds)[2] = 0

\* ---------------------------------------------- ocr.rs: detect_columns

\* A Word is [text, min, max], min and max the corners <<x, y>> of its
\* Aabb2d.  Coordinates are f32 in the code and small integers here, which
\* f32 holds exactly.  A midpoint (a + b) / 2.0 is kept as its double a + b,
\* so a boundary and a centre are compared as twice their values.

Max(a, b) == IF a >= b THEN a ELSE b

\* The place of words[i] after the stable sort by bounds.min.x.
SortRank(words, i) ==
  1 + Cardinality({ j \in 1..Len(words) :
                      \/ words[j].min[1] < words[i].min[1]
                      \/ (words[j].min[1] = words[i].min[1] /\ j < i) })

\* words.to_vec() sorted by bounds.min.x.
SortedWords(words) ==
  [k \in 1..Len(words) |-> words[CHOOSE i \in 1..Len(words) : SortRank(words, i) = k]]

\* A boundary test that splits every pair of neighbours, whatever the gap.
GapSplitsAlways(gap, gap_threshold) == TRUE

\* A gap test that also splits at a gap equal to the threshold.
GapSplitsAtThreshold(gap, gap_threshold) == gap >= gap_threshold

\* The test of the boundary loop.
GapSplits(gap, gap_threshold) == gap > gap_threshold

\* The boundary loop from index i on: a boundary at the midpoint of every
\* gap between sorted[i] and sorted[i + 1] that splits (twice the midpoint).
RECURSIVE BoundariesFrom(_, _, _)
BoundariesFrom(sorted, gap_threshold, i) ==
  IF i >= Len(sorted) THEN << >>
  ELSE (IF GapSplits(sorted[i + 1].min[1] - sorted[i].max[1], gap_threshold)
        THEN << sorted[i].max[1] + sorted[i + 1].min[1] >>
        ELSE << >>)
       \o BoundariesFrom(sorted, gap_threshold, i + 1)

\* Aabb2d::center().x, (min.x + max.x) / 2.0: twice the centre.
TwiceCenterX(word) == word.min[1] + word.max[1]

\* A column index that counts the boundaries at or left of the centre.
col_idx_inclusive(word, boundaries) ==
  Cardinality({ k \in 1..Len(boundaries) : TwiceCenterX(word) >= boundaries[k] })

\* col_idx: the number of boundaries strictly left of the word's centre.
col_idx(word, boundaries) ==
  Cardinality({ k \in 1..Len(boundaries) : TwiceCenterX(word) > boundaries[k] })

\* Columns filled from the right: the words left of every boundary last.
AssignColumnsDescending(words, boundaries) ==
  [c \in 1..(Len(boundaries) + 1) |->
     SelectSeq(words, LAMBDA w : col_idx(w, boundaries) = Len(boundaries) + 1 - c)]

\* The columns after the assignment loop: columns[c] holds, in the order of
\* the input slice, the words whose col_idx is c - 1.
AssignColumns(words, boundaries) ==
  [c \in 1..(Len(boundaries) + 1) |->
     SelectSeq(words, LAMBDA w : col_idx(w, boundaries) = c - 1)]

\* A join over the words sorted by x.
JoinTextsSorted(col) ==
  LET sorted == SortedWords(col)
  IN  [k \in 1..(2 * Len(col) - 1) |->
         IF k % 2 = 1 THEN sorted[(k + 1) \div 2].text ELSE " "]

\* The texts of a non-empty column joined by " ": the pieces of the name,
\* in order.
JoinTexts(col) ==
  [k \in 1..(2 * Len(col) - 1) |-> IF k % 2 = 1 THEN col[(k + 1) \div 2].text ELSE " "]

\* Bounds that are those of the column's first word.
FirstBounds(a, b) == a

\* Aabb2d::merge
Merge(a, b) ==
  [ min |-> << Min(a.min[1], b.min[1]), Min(a.min[2], b.min[2]) >>,
    max |-> << Max(a.max[1], b.max[1]), Max(a.max[2], b.max[2]) >> ]

\* The merge loop over col[1..]: the bounds after the first i words.
RECURSIVE MergedBounds(_, _)
MergedBounds(col, i) ==
  IF i = 1 THEN [min |-> col[1].min, max |-> col[1].max]
  ELSE Merge(MergedBounds(col, i - 1), [min |-> col[i].min, max |-> col[i].max])

\* The filter_map over the columns: an Item for every non-empty column.
RECURSIVE ItemsFrom(_, _)
ItemsFrom(columns, c) ==
  IF c > Len(columns) THEN << >>
  ELSE (IF columns[c] = << >> THEN << >>
        ELSE << [ name |-> JoinTexts(columns[c]),
                  bounds |-> MergedBounds(columns[c], Len(columns[c])) ] >>)
       \o ItemsFrom(columns, c + 1)

\* detect_columns after its test for an empty slice.  On an empty slice
\* `sorted.len() - 1` underflows: a panic, from the subtraction or from the
\* index that follows it.
detect_columns_body(words, gap_threshold) ==
  IF words = << >>
  THEN [panicked |-> TRUE, boundaries |-> << >>, columns |-> << >>, items |-> << >>]
  ELSE LET boundaries == BoundariesFrom(SortedWords(words), gap_threshold, 1)
           columns == AssignColumns(words, boundaries)
       IN  [ panicked |-> FALSE, boundaries |-> boundaries, columns |-> columns,
             items |-> ItemsFrom(columns, 1) ]

\* A detect_columns without its test for an empty slice.
detect_columns_unguarded(words, gap_threshold) ==
  detect_columns_body(words, gap_threshold)

\* detect_columns(words, gap_threshold): the items it returns, with the
\* boundaries (as twice their values) and the columns it computed on the way.
detect_columns(words, gap_threshold) ==
  IF words = << >>
  THEN [panicked |-> FALSE, boundaries |-> << >>, columns |-> << >>, items |-> << >>]
  ELSE detect_columns_body(words, gap_threshold)

\* ------------------------------- ocr.rs: detect_once, words and lines

\* A first index that starts every line at 0.
FirstIndexReset(words) == 0

\* `let first_index = words.len();`
FirstIndex(words) == Len(words)

\* The loop of detect_once over line_texts, from index i on, with the words
\* and lines pushed so far.  A recognised line is the sequence of the texts
\* of line.words(); a line for which recognition gave nothing is None and is
\* skipped.  word_range is the Range first_index..words.len(), kept as
\* <<start, end>>; the boxes of words and lines are left out.
RECURSIVE AssembleFrom(_, _, _, _)
AssembleFrom(line_texts, i, words, lines) ==
  IF i > Len(line_texts) THEN [words |-> words, lines |-> lines]
  ELSE IF line_texts[i] = None
       THEN AssembleFrom(line_texts, i + 1, words, lines)
       ELSE LET first_index == FirstIndex(words)
                pushed == words \o [k \in 1..Len(line_texts[i][1]) |->
                                      [text |-> line_texts[i][1][k]]]
            IN  AssembleFrom(line_texts, i + 1, pushed,
                             Append(lines, [word_range |-> << first_index, Len(pushed) >>]))

\* detect_once: the words and lines of the OcrResults it builds from the
\* recognised lines.
AssembleLines(line_texts) == AssembleFrom(line_texts, 1, << >>, << >>)

\* The OcrResults detect_once returns for the words of one recognised line:
\* the words and the line in image coordinates, the items detect_columns
\* clusters them into, and the detection region as an Aabb2d.
OcrResultsOf(words, gap_threshold, ocr_bounds) ==
  [ detect_aabb |-> [min |-> ocr_bounds.min, max |-> ocr_bounds.max],
    words |-> words,
    lines |-> IF words = << >> THEN << >>
              ELSE << [ bounds |-> MergedBounds(words, Len(words)),
                        word_range |-> << 0, Len(words) >> ] >>,
    items |-> detect_columns(words, gap_threshold).items ]

\* An OcrTask that has returned no OcrResults.
NoResults ==
  [ detect_aabb |-> [min |-> <<0, 0>>, max |-> <<0, 0>>],
    words |-> << >>, lines |-> << >>, items |-> << >> ]

\* ------------------------------ ocr.rs: OcrResults::convert_aabbs_inplace

\* cam.0.viewport_to_world_2d(cam.1, v), as the closure conv calls it.  The
\* method is Bevy's and returns a Result.  What it computes from the camera
\* is no code of this repository and is left uninterpreted: the Ok value is
\* the point v with the camera appended that converted it, so a point of the
\* image, its conversion and the conversion of its conversion are three
\* different values, and the first two entries stay the image coordinates
\* the point came from.  A camera that cannot convert (it has no viewport
\* size yet, or its projection gives no finite point) yields an Err.
viewport_to_world_2d(cam, v) ==
  IF cam.converts
  THEN [ok |-> TRUE, val |-> v \o << cam.entity >>]
  ELSE [ok |-> FALSE, val |-> v]

\* The closure conv_aabb: max and min are converted, each on its own, and
\* each Result is unwrapped.
conv_aabb(cam, aabb) ==
  [ min |-> viewport_to_world_2d(cam, aabb.min).val,
    max |-> viewport_to_world_2d(cam, aabb.max).val ]

\* A conversion that leaves the line boxes in image coordinates and converts
\* the item boxes twice.
convert_aabbs_uneven(results, cam) ==
  [ detect_aabb |-> conv_aabb(cam, results.detect_aabb),
    words |-> [i \in 1..Len(results.words) |->
                 [ text |-> results.words[i].text,
                   min |-> conv_aabb(cam, results.words[i]).min,
                   max |-> conv_aabb(cam, results.words[i]).max ]],
    lines |-> results.lines,
    items |-> [i \in 1..Len(results.items) |->
                 [results.items[i] EXCEPT
                    !.bounds = conv_aabb(cam, conv_aabb(cam, @))]] ]

\* OcrResults::convert_aabbs_inplace(cam) panics: one of the conversions of
\* the words, the lines, the items or detect_aabb is an Err, and unwrap
\* panics on it.
convert_aabbs_inplace_panics(results, cam) ==
  \E v \in { results.detect_aabb.min, results.detect_aabb.max }
            \cup UNION { { results.words[i].min, results.words[i].max } :
                           i \in 1..Len(results.words) }
            \cup UNION { { results.lines[i].bounds.min, results.lines[i].bounds.max } :
                           i \in 1..Len(results.lines) }
            \cup UNION { { results.items[i].bounds.min, results.items[i].bounds.max } :
                           i \in 1..Len(results.items) } :
     ~viewport_to_world_2d(cam, v).ok

\* OcrResults::convert_aabbs_inplace(cam): the results after a call that
\* did not panic.
convert_aabbs_inplace(results, cam) ==
  [ detect_aabb |-> conv_aabb(cam, results.detect_aabb),
    words |-> [i \in 1..Len(results.words) |->
                 [ text |-> results.words[i].text,
                   min |-> conv_aabb(cam, results.words[i]).min,
                   max |-> conv_aabb(cam, results.words[i]).max ]],
    lines |-> [i \in 1..Len(results.lines) |->
                 [results.lines[i] EXCEPT !.bounds = conv_aabb(cam, @)]],
    items |-> [i \in 1..Len(results.items) |->
                 [results.items[i] EXCEPT !.bounds = conv_aabb(cam, @)]] ]

\* ------------------------------------------------------------ the inputs

\* Buffers the capture stream delivers: one pixel, two pixels.
FrameChoices ==
  { <<10, 20, 30, 40>>, <<10, 20, 30, 40, 50, 60, 70, 80>> }

\* Formats the stream negotiates, among those start_streaming offers: one
\* kept as it is, one whose bytes are reordered, and RGB, the first it
\* offers, which param_changed's match leaves to `other => Other(..)`.
MetaChoices ==
  { [width |-> 2, height |-> 1, format |-> "Rgba"],
    [width |-> 2, height |-> 1, format |-> "BGRx"],
    [width |-> 2, height |-> 1, format |-> "Other"] }

\* The ScreencastMeta of the seq-th negotiation.
Negotiated(meta, seq) ==
  [width |-> meta.width, height |-> meta.height, format |-> meta.format, seq |-> seq]

\* ScreencastMeta::default(): zero size, VideoFormat::Bgra.
DefaultMeta == [width |-> 0, height |-> 0, format |-> "Bgra", seq |-> 0]

\* The configured layouts, in order.  The first is selected by a 2:1 frame
\* whose top-left pixel is (10,20,30,40) and was authored against a 2x1
\* reference; the second by any square frame and was authored against 2x2.
conf ==
  [ save_to_disk |-> FALSE,
    layouts |->
      << [ aspect_ratio |-> <<2, 1>>,
           pixel_checks |->
             << [x |-> 0, y |-> 0, color |-> <<10, 20, 30, 40>>,
                 tolerance |-> <<0, 1>>] >>,
           config |-> [offset |-> <<0, 0>>, size |-> <<1, 1>>,
                       reference_resolution |-> <<2, 1>>] ],
         [ aspect_ratio |-> <<1, 1>>,
           pixel_checks |-> << >>,
           config |-> [offset |-> <<0, 0>>, size |-> <<1, 1>>,
                       reference_resolution |-> <<2, 2>>] ] >> ]

\* Numbers of items the clustering of one OCR pass may yield.
ResultSizes == {0, 2, 5}

\* The gap threshold detect_once passes to detect_columns.
GapThreshold == 15

\* The words of a pass that yields n items: one word per item, on one line,
\* 20 wide and 20 apart, placed from the corner of the detection region as
\* detect_once places them (`+ ocr_bounds.min.as_vec2()`).
RecognisedWords(n, ocr_bounds) ==
  [i \in 1..n |->
     [ text |-> i,
       min |-> << ocr_bounds.min[1] + 40 * (i - 1), ocr_bounds.min[2] >>,
       max |-> << ocr_bounds.min[1] + 40 * (i - 1) + 20, ocr_bounds.min[2] + 10 >> ]]

\* What becomes of an Err a system returns: Bevy hands it to the app's error
\* handler, which panics unless the app installs another one.
ErrorHandlerOutcomes == {"panic", "log"}

\* ------------------------------------------------------------- the state

VARIABLES
  appState,      \* State<AppState>
  phase,         \* State<PlatOverlayPhase>, "None" while the sub-state does not exist
  next_app,      \* NextState<AppState>: "None" (Unchanged) or the pending state
  next_phase,    \* NextState<PlatOverlayPhase>: "None" (Unchanged) or the pending state
  recv_pc,       \* where receive_frames is in this frame's Update: before its
                 \* try_recv on the metadata channel ("meta"), between its two
                 \* try_recv ("frame"), or past both ("done")
  polled,        \* get_ocr_result has run in this frame's Update
  frames_chan,   \* the frame channel (bounded(1)), oldest first
  meta_chan,     \* the metadata channel (bounded(1)), oldest first
  prod_pc,       \* where the capture thread is in its callback
  prod_val,      \* the value the running callback publishes
  latest_img,    \* LatestImage.0, with the sequence number of the frame it came from
  latest_meta,   \* LatestImage.1, with the sequence number of the negotiation it came from
  current_task,  \* OcrTask.0: NoTask or the index of the held task
  engine_lock,   \* Engine.0, the Mutex around the OcrEngine: NoTask or the task holding it
  tasks,         \* every task spawned so far on the AsyncComputeTaskPool, each with
                 \* the OcrResults it returned, as get_ocr_result left them
  container,     \* ItemsContainer(aabb, color)
  children,      \* the children of the items container, in order
  commands,      \* the Commands get_ocr_result has queued on the container and
                 \* no sync point has applied yet, oldest first
  delayed,       \* pending DelayedCommandQueue entities that set AppState::Waiting
  crashed,       \* a panic has ended the app
  started,       \* the Startup schedule has run
  close_layout_after, \* Config::close_layout_after, the f32 read from config.toml
  last_start,    \* what start_ocr_task did at the last press of the overlay key, and
                 \* the stored buffer length, needed length and format it met
  nframes,       \* frames delivered by the stream so far
  nmetas,        \* formats negotiated so far
  untaken_frames, \* publishes on the frame channel completed since the last try_recv
  untaken_metas,  \* publishes on the metadata channel completed since the last try_recv
  call,           \* one call of a function of cap.rs, config.rs or ocr.rs on its
                  \* own: the function, its arguments and, once it has returned,
                  \* what it returned
  data            \* the DataManager resource: map and ordered

appVars ==
  << appState, phase, next_app, next_phase, recv_pc, polled, frames_chan, meta_chan, prod_pc, prod_val, latest_img,
     latest_meta, current_task, engine_lock, tasks, container, children,
     commands, delayed, crashed, started, last_start, nframes, nmetas,
     untaken_frames, untaken_metas, close_layout_after >>

vars == << appVars, call, data >>

chanVars == << frames_chan, meta_chan, prod_pc, prod_val, nframes, nmetas,
               untaken_frames, untaken_metas >>
stateVars == << appState, phase, delayed, next_app, next_phase, recv_pc, polled >>
ocrVars == << current_task, engine_lock, tasks, container, children, commands,
             last_start >>
imgVars == << latest_img, latest_meta >>

NoTask == 0
NoFrame == [seq |-> 0, bytes |-> << >>]

\* No function is being called on its own.
NoCall == [fn |-> "none"]

\* LatestImage::default(), OcrTask::default(), AppState::Waiting,
\* The app as App::run finds it: the resources inserted, the container of
\* setup_items_container spawned, the Startup schedule not yet through.  The
\* first frame is past its StateTransition schedule when Startup ends.
AppInit ==
  /\ appState = "Waiting"
  /\ phase = "None"
  /\ next_app = "None"
  /\ next_phase = "None"
  /\ recv_pc = "meta"
  /\ polled = FALSE
  /\ frames_chan = << >>
  /\ meta_chan = << >>
  /\ prod_pc = "idle"
  /\ prod_val = None
  /\ latest_img = NoFrame
  /\ latest_meta = DefaultMeta
  /\ current_task = NoTask
  /\ engine_lock = NoTask
  /\ tasks = << >>
  /\ container = [aabb |-> [min |-> <<0, 0>>, max |-> <<0, 0>>], color |-> "BLACK"]
  /\ children = << >>
  /\ commands = << >>
  /\ delayed = 0
  /\ crashed = FALSE
  /\ started = FALSE
  /\ last_start = [outcome |-> "never", len |-> 0, need |-> 0, format |-> "Bgra"]
  /\ nframes = 0
  /\ nmetas = 0
  /\ untaken_frames = 0
  /\ untaken_metas = 0

\* An f32 of the configuration: a finite value (-1)^neg * m * 2^e with
\* 2^23 <= m < 2^24 (or m = 0), a NaN or an infinity.  TOML writes the last
\* two as `nan` and `inf`.
DefaultCloseAfter == [kind |-> "finite", neg |-> FALSE, m |-> 15204352, e |-> -20]

\* Values of close_layout_after in a config.toml: the default 14.5, -1.0,
\* 1e20 (the f32 11368684 * 2^43) and nan.
CloseAfterChoices ==
  { DefaultCloseAfter,
    [kind |-> "finite", neg |-> TRUE, m |-> 8388608, e |-> -23],
    [kind |-> "finite", neg |-> FALSE, m |-> 11368684, e |-> 43],
    [kind |-> "nan", neg |-> FALSE, m |-> 0, e |-> 0] }

\* Duration::from_secs_f32 panics on a value below zero ("value is
\* negative") and on a NaN, an infinity or 2^64 seconds and more ("value is
\* either too big or NaN").
from_secs_f32_panics(secs) ==
  \/ secs.kind # "finite"
  \/ secs.neg /\ secs.m # 0
  \/ secs.m # 0 /\ secs.e + 23 >= 64

\* DataManager::default(): both maps empty.  A map is a function from the
\* keys it holds.
EmptyData == [map |-> << >>, ordered |-> << >>]

\* Slugs of items of the market.
SlugChoices == {"lex_prime_barrel", "forma_blueprint", "paris_prime_string"}

\* The maps a result.json can hold: some slugs, each with its ItemData (of
\* which only last_fetch is kept here).
SavedMaps ==
  UNION { [S -> [last_fetch : 0..MaxTime]] : S \in SUBSET SlugChoices }

\* `m.map.iter().map(|i| (i.1.last_fetch, i.0.clone())).collect()`: a
\* BTreeMap with one entry per last_fetch of the map; of the keys that share
\* a last_fetch it keeps the one the HashMap's iteration yields last, which
\* can be any of them.
OrderedOf(map) ==
  LET stamps == { map[k].last_fetch : k \in DOMAIN map }
  IN  { o \in [stamps -> DOMAIN map] : \A t \in stamps : map[o[t]].last_fetch = t }

\* DataManager::restore_from_disk_or_empty(): the default when result.json
\* is missing or does not parse, else its map with ordered rebuilt from it.
restore_from_disk_or_empty ==
  { EmptyData } \cup
  UNION { { [map |-> m, ordered |-> o] : o \in OrderedOf(m) } : m \in SavedMaps }

\* MarketPlugin inserts the restored DataManager as a resource at start-up.
Init ==
  /\ AppInit
  /\ close_layout_after \in CloseAfterChoices
  /\ call = NoCall
  /\ data \in restore_from_disk_or_empty

\* The first start: no result.json, so the DataManager is the default.
FirstStart == Init /\ data = EmptyData

\* ------------------------------------------------------ main.rs: setup

\* setup (Startup): the camera is spawned and, when conf.show_corner_boxes
\* is above 0.0, the corner boxes and the delayed command that despawns them
\* after Duration::from_secs_f32(conf.show_corner_boxes), which panics on a
\* value no Duration holds.  A NaN is not above 0.0.  The values of
\* show_corner_boxes are the default 5.0, 0.0, -1.0, 1e20, a NaN and the
\* infinity.
setup ==
  /\ ~started
  /\ ~crashed
  /\ started' = TRUE
  /\ \E show_corner_boxes \in
         { [kind |-> "finite", neg |-> FALSE, m |-> 10485760, e |-> -21],
           [kind |-> "finite", neg |-> FALSE, m |-> 0, e |-> 0],
           [kind |-> "finite", neg |-> TRUE, m |-> 8388608, e |-> -23],
           [kind |-> "finite", neg |-> FALSE, m |-> 11368684, e |-> 43],
           [kind |-> "nan", neg |-> FALSE, m |-> 0, e |-> 0],
           [kind |-> "inf", neg |-> FALSE, m |-> 0, e |-> 0] } :
       crashed' = /\ show_corner_boxes.kind # "nan"
                  /\ ~show_corner_boxes.neg
                  /\ show_corner_boxes.kind = "inf" \/ show_corner_boxes.m # 0
                  /\ from_secs_f32_panics(show_corner_boxes)
  /\ UNCHANGED << appState, phase, delayed, next_app, next_phase, recv_pc, polled >>
  /\ UNCHANGED << ocrVars, imgVars, chanVars >>
  /\ UNCHANGED << call, data, close_layout_after >>

\* ------------------------------------------- cap.rs: the capture thread

\* A receive that leaves the value it yields in the channel.
TryRecvRestKeep(chan) == chan

\* The receiving side of try_recv: what it leaves in the channel.
TryRecvRest(chan) == IF chan = << >> THEN chan ELSE Tail(chan)

\* The receiving side of try_recv: the value it yields.
TryRecvValue(chan) == IF chan = << >> THEN None ELSE Some(Head(chan))

\* The pipewire process callback is called with a buffer: it copies the bytes
\* and starts to publish them.
ProcessCallback ==
  /\ started
  /\ ~crashed
  /\ prod_pc = "idle"
  /\ nframes < MaxFrames
  /\ \E bytes \in FrameChoices :
       prod_val' = Some([seq |-> nframes + 1, bytes |-> bytes])
  /\ nframes' = nframes + 1
  /\ prod_pc' = "frame_drain"
  /\ UNCHANGED << frames_chan, meta_chan, nmetas, untaken_frames, untaken_metas >>
  /\ UNCHANGED << stateVars, ocrVars, imgVars, crashed >>
  /\ UNCHANGED << call, data, close_layout_after, started >>

\* The param_changed callback is called with a raw video format: it builds
\* the ScreencastMeta and starts to publish it.
ParamChanged ==
  /\ started
  /\ ~crashed
  /\ prod_pc = "idle"
  /\ nmetas < MaxMetas
  /\ \E meta \in MetaChoices : prod_val' = Some(Negotiated(meta, nmetas + 1))
  /\ nmetas' = nmetas + 1
  /\ prod_pc' = "meta_drain"
  /\ UNCHANGED << frames_chan, meta_chan, nframes, untaken_frames, untaken_metas >>
  /\ UNCHANGED << stateVars, ocrVars, imgVars, crashed >>
  /\ UNCHANGED << call, data, close_layout_after, started >>

\* One turn of `while rx.try_recv().is_ok() {}`: a pending value is dropped
\* and the loop goes on; an empty channel ends the loop.
DrainStep(chan) == TryRecvRest(chan)

\* A loop that ends at once, whatever the channel holds.
DrainDoneAlways(chan) == TRUE
DrainDone(chan) == chan = << >>

ProducerDrain ==
  /\ started
  /\ ~crashed
  /\ prod_pc \in {"frame_drain", "meta_drain"}
  /\ IF prod_pc = "frame_drain"
     THEN /\ frames_chan' = IF DrainDone(frames_chan) THEN frames_chan
                            ELSE DrainStep(frames_chan)
          /\ prod_pc' = IF DrainDone(frames_chan) THEN "frame_send" ELSE prod_pc
          /\ UNCHANGED meta_chan
     ELSE /\ meta_chan' = IF DrainDone(meta_chan) THEN meta_chan
                          ELSE DrainStep(meta_chan)
          /\ prod_pc' = IF DrainDone(meta_chan) THEN "meta_send" ELSE prod_pc
          /\ UNCHANGED frames_chan
  /\ UNCHANGED << prod_val, nframes, nmetas, untaken_frames, untaken_metas >>
  /\ UNCHANGED << stateVars, ocrVars, imgVars, crashed >>
  /\ UNCHANGED << call, data, close_layout_after, started >>

\* Sender::send on a bounded channel blocks while the channel is full.
SendReady(chan) == Len(chan) < Capacity

ProducerSend ==
  /\ started
  /\ ~crashed
  /\ prod_pc \in {"frame_send", "meta_send"}
  /\ IF prod_pc = "frame_send"
     THEN /\ SendReady(frames_chan)
          /\ frames_chan' = Append(frames_chan, prod_val[1])
          /\ untaken_frames' = untaken_frames + 1
          /\ UNCHANGED << meta_chan, untaken_metas >>
     ELSE /\ SendReady(meta_chan)
          /\ meta_chan' = Append(meta_chan, prod_val[1])
          /\ untaken_metas' = untaken_metas + 1
          /\ UNCHANGED << frames_chan, untaken_frames >>
  /\ prod_pc' = "idle"
  /\ prod_val' = None
  /\ UNCHANGED << nframes, nmetas >>
  /\ UNCHANGED << stateVars, ocrVars, imgVars, crashed >>
  /\ UNCHANGED << call, data, close_layout_after, started >>

\* ------------------------------------------------ cap.rs: receive_frames

\* receive_frames (Update), once a frame: one try_recv on the metadata
\* channel, then one on the frame channel.  The capture thread runs on
\* between the two.
receive_frames ==
  /\ started
  /\ ~crashed
  /\ \/ /\ recv_pc = "meta"
        /\ latest_meta' = IF TryRecvValue(meta_chan) = None THEN latest_meta
                          ELSE TryRecvValue(meta_chan)[1]
        /\ meta_chan' = TryRecvRest(meta_chan)
        /\ untaken_metas' = 0
        /\ recv_pc' = "frame"
        /\ UNCHANGED << latest_img, frames_chan, untaken_frames >>
     \/ /\ recv_pc = "frame"
        /\ latest_img' = IF TryRecvValue(frames_chan) = None THEN latest_img
                         ELSE TryRecvValue(frames_chan)[1]
        /\ frames_chan' = TryRecvRest(frames_chan)
        /\ untaken_frames' = 0
        /\ recv_pc' = "done"
        /\ UNCHANGED << latest_meta, meta_chan, untaken_metas >>
  /\ UNCHANGED << prod_pc, prod_val, nframes, nmetas >>
  /\ UNCHANGED << appState, phase, delayed, next_app, next_phase, polled >>
  /\ UNCHANGED << ocrVars, crashed >>
  /\ UNCHANGED << call, data, close_layout_after, started >>

\* -------------------------------------------------- ocr.rs: the OCR task

\* start_ocr_task's first condition: OcrTask holds no task.
TaskSlotFreeAlways(task) == TRUE
TaskSlotFree(task) == task = NoTask

\* start_ocr_task's layout lookup; a layout that falls back to the first
\* configured one when nothing matches.
SelectLayoutOrFirst(image) ==
  IF find_matching_layout(conf, image) = None
  THEN Some(conf.layouts[1].config)
  ELSE find_matching_layout(conf, image)
SelectLayout(image) == find_matching_layout(conf, image)

\* The task start_ocr_task spawns for an image taken from frame `seq`.
NewTask(image, seq, layout) ==
  [ st |-> "queued", res |-> "none", n |-> 0, engine |-> FALSE, seq |-> seq,
    img |-> image, result |-> NoResults,
    ocr_bounds |-> get_ocr_bounds(layout, <<image.width, image.height>>) ]

\* What start_ocr_task met: the stored buffer's length, the length the
\* stored metadata asks for and the stored format.
Met(outcome) ==
  [ outcome |-> outcome, len |-> Len(latest_img.bytes),
    need |-> latest_meta.width * latest_meta.height * 4,
    format |-> latest_meta.format ]

\* start_ocr_task (OnEnter(PlatOverlayPhase::Ocr)), run by StateTransition.
\* The ratios of conf (2:1, 1:1) and the sizes of the frames of MetaChoices
\* keep the products of the aspect-ratio test far below 2^32, so the lookup
\* returns in every build.
start_ocr_task ==
  LET got == get_latest_rgba(latest_img.bytes, latest_meta)
      stored == IF got.buf = latest_img.bytes THEN latest_img ELSE NoFrame
  IN  IF ~TaskSlotFree(current_task)
      THEN /\ last_start' = Met("held")
           /\ UNCHANGED << current_task, tasks, container, children, commands, imgVars >>
      ELSE IF got.img = None
      THEN /\ last_start' = Met("noframe")
           /\ latest_img' = stored
           /\ UNCHANGED << current_task, tasks, container, children, commands, latest_meta >>
      ELSE IF SelectLayout(got.img[1]) = None
      THEN /\ last_start' = Met("nolayout")
           /\ latest_img' = stored
           /\ UNCHANGED << current_task, tasks, container, children, commands, latest_meta >>
      ELSE /\ last_start' = Met("spawned")
           /\ latest_img' = stored
           /\ tasks' = Append(tasks, NewTask(got.img[1], latest_img.seq,
                                             SelectLayout(got.img[1])[1]))
           /\ current_task' = Len(tasks) + 1
           /\ container' = [container EXCEPT !.color = "GREEN"]
           /\ UNCHANGED << children, commands, latest_meta >>

\* A worker thread of the task pool begins to run a spawned task:
\* detect_once crops and preprocesses the image.
WorkerStart ==
  /\ started
  /\ ~crashed
  /\ \E t \in 1..Len(tasks) :
       /\ tasks[t].st = "queued"
       /\ tasks' = [tasks EXCEPT ![t].st = "running"]
  /\ UNCHANGED << current_task, engine_lock, container, children, commands, last_start >>
  /\ UNCHANGED << chanVars, stateVars, imgVars, crashed >>
  /\ UNCHANGED << call, data, close_layout_after, started >>

\* detect_once: what the task returns, and whether it locked the engine.
\* A crop with a zero dimension is an Err before the engine is touched;
\* otherwise the engine is locked and either fails or yields words that
\* cluster into n items.
DetectOutcomes(task) ==
  IF CropIsEmpty(task.img, task.ocr_bounds)
  THEN { [res |-> "Err", n |-> 0, engine |-> FALSE] }
  ELSE { [res |-> "Err", n |-> 0, engine |-> TRUE] }
         \cup { [res |-> "Ok", n |-> k, engine |-> TRUE] : k \in ResultSizes }

\* A MutexGuard that an Err return leaves locked.
GuardKeptOnErr(t, res) == IF res = "Err" THEN t ELSE NoTask

\* The MutexGuard `ocr_engine` after the engine calls: dropped by
\* drop(ocr_engine) on the way on, and by scope exit when `?` returns an Err.
GuardAfterEngine(t, res) == NoTask

\* detect_once locks the engine, after the crop and the preprocessing; a
\* Mutex is locked by one thread at a time.
EngineLock ==
  /\ started
  /\ ~crashed
  /\ engine_lock = NoTask
  /\ \E t \in 1..Len(tasks) :
       /\ tasks[t].st = "running"
       /\ ~CropIsEmpty(tasks[t].img, tasks[t].ocr_bounds)
       /\ tasks' = [tasks EXCEPT ![t].st = "engine", ![t].engine = TRUE]
       /\ engine_lock' = t
  /\ UNCHANGED << current_task, container, children, commands, last_start >>
  /\ UNCHANGED << chanVars, stateVars, imgVars, crashed >>
  /\ UNCHANGED << call, data, close_layout_after, started >>

\* The engine calls (prepare_input, detect_words, find_text_lines,
\* recognize_text) end and the guard is dropped: with an Err, which `?` is
\* about to return from detect_once, or with the recognised lines, which
\* detect_once goes on to assemble and cluster.
EngineUnlock ==
  /\ started
  /\ ~crashed
  /\ \E t \in 1..Len(tasks) :
       /\ tasks[t].st = "engine"
       /\ \E o \in DetectOutcomes(tasks[t]) :
            /\ tasks' = [tasks EXCEPT
                           ![t].st = IF o.res = "Err" THEN "returning" ELSE "assembling",
                           ![t].res = o.res, ![t].n = o.n]
            /\ engine_lock' = GuardAfterEngine(t, o.res)
  /\ UNCHANGED << current_task, container, children, commands, last_start >>
  /\ UNCHANGED << chanVars, stateVars, imgVars, crashed >>
  /\ UNCHANGED << call, data, close_layout_after, started >>

\* detect_once returns: the Err of an empty crop, the Err of an engine call
\* once the guard is dropped, or the OcrResults once the words and lines are
\* assembled and clustered.
WorkerFinish ==
  /\ started
  /\ ~crashed
  /\ \E t \in 1..Len(tasks) :
       \/ /\ tasks[t].st = "running"
          /\ CropIsEmpty(tasks[t].img, tasks[t].ocr_bounds)
          /\ \E o \in DetectOutcomes(tasks[t]) :
               tasks' = [tasks EXCEPT ![t].st = "finished", ![t].res = o.res,
                                      ![t].n = o.n, ![t].engine = o.engine]
       \/ /\ tasks[t].st = "returning"
          /\ tasks' = [tasks EXCEPT ![t].st = "finished"]
       \/ /\ tasks[t].st = "assembling"
          /\ tasks' = [tasks EXCEPT
                         ![t].st = "finished",
                         ![t].result =
                           OcrResultsOf(RecognisedWords(tasks[t].n, tasks[t].ocr_bounds),
                                        GapThreshold, tasks[t].ocr_bounds)]
  /\ UNCHANGED << current_task, engine_lock, container, children, commands, last_start >>
  /\ UNCHANGED << chanVars, stateVars, imgVars, crashed >>
  /\ UNCHANGED << call, data, close_layout_after, started >>

\* A loop that spawns every item of the result.
SpawnedItemsAll(t, n) == [i \in 1..n |-> [task |-> t, idx |-> i]]

\* The children get_ocr_result spawns for a result of n items: the items at
\* index 0..3.  A child [task, idx] is the idx-th item of task's result.
SpawnedItems(t, n) ==
  [i \in 1..Min(n, MaxItemIdx + 1) |-> [task |-> t, idx |-> i]]

\* The Commands get_ocr_result queues on the container for the result of
\* task t with n items: despawn_children, then the spawn of each child of
\* with_children.
QueuedCommands(t, n) ==
  << [op |-> "despawn_children", child |-> [task |-> NoTask, idx |-> 0]] >>
    \o [i \in 1..Len(SpawnedItems(t, n)) |->
          [op |-> "spawn", child |-> SpawnedItems(t, n)[i]]]

\* The children of the container once the queued commands are applied to
\* them, in the order they were queued.
RECURSIVE ApplyCommands(_, _)
ApplyCommands(queue, kids) ==
  IF queue = << >> THEN kids
  ELSE ApplyCommands(Tail(queue),
                     IF Head(queue).op = "despawn_children" THEN << >>
                     ELSE Append(kids, Head(queue).child))

\* get_ocr_result (Update, run_if(in_state(PlatOverlayPhase::Ocr))), once a
\* frame.  poll_once on a task that has not returned yields nothing; on one that has
\* returned it yields the output, once; a task polled after its output was
\* taken panics.  An Err leaves the system through `?`, before the handle is
\* cleared, and goes to the app's error handler.  An Ok is converted with
\* the camera the query yields, which panics when a conversion is an Err;
\* then the container's region and colour are written, the replacement of
\* its children is queued as Commands, and the handle is cleared.
get_ocr_result ==
  /\ started
  /\ ~crashed
  /\ phase = "Ocr"
  /\ ~polled
  /\ polled' = TRUE
  /\ IF current_task = NoTask
     THEN UNCHANGED << current_task, tasks, container, commands, crashed >>
     ELSE LET t == current_task
          IN  CASE tasks[t].st \in {"queued", "running", "engine", "assembling",
                                     "returning"} ->
                     UNCHANGED << current_task, tasks, container, commands, crashed >>
                [] tasks[t].st = "finished" /\ tasks[t].res = "Ok" ->
                     \E converts \in BOOLEAN :
                       LET cam == [entity |-> "Camera2d", converts |-> converts]
                           result == convert_aabbs_inplace(tasks[t].result, cam)
                       IN  IF convert_aabbs_inplace_panics(tasks[t].result, cam)
                           THEN /\ tasks' = [tasks EXCEPT ![t].st = "taken"]
                                /\ crashed' = TRUE
                                /\ UNCHANGED << current_task, container, commands >>
                           ELSE /\ tasks' = [tasks EXCEPT ![t].st = "taken",
                                                          ![t].result = result]
                                /\ container' = [aabb |-> result.detect_aabb,
                                                 color |-> "MAGENTA"]
                                /\ commands' = commands \o
                                      QueuedCommands(t, Len(result.items))
                                /\ current_task' = NoTask
                                /\ UNCHANGED crashed
                [] tasks[t].st = "finished" /\ tasks[t].res = "Err" ->
                     /\ tasks' = [tasks EXCEPT ![t].st = "taken"]
                     /\ \E h \in ErrorHandlerOutcomes : crashed' = (h = "panic")
                     /\ UNCHANGED << current_task, container, commands >>
                [] OTHER ->
                     /\ crashed' = TRUE
                     /\ UNCHANGED << current_task, tasks, container, commands >>
  /\ UNCHANGED << last_start, engine_lock, children >>
  /\ UNCHANGED << appState, phase, delayed, next_app, next_phase, recv_pc >>
  /\ UNCHANGED << chanVars, imgVars >>
  /\ UNCHANGED << call, data, close_layout_after, started >>

\* The sync point after get_ocr_result: the schedule applies the system's
\* Commands before debug_ocr_result, which is chained after it and reads the
\* container's Children, and in any case before the frame ends.
ApplyDeferred ==
  /\ started
  /\ ~crashed
  /\ commands # << >>
  /\ children' = ApplyCommands(commands, children)
  /\ commands' = << >>
  /\ UNCHANGED << current_task, engine_lock, tasks, container, last_start >>
  /\ UNCHANGED << chanVars, stateVars, imgVars, crashed >>
  /\ UNCHANGED << call, data, close_layout_after, started >>

\* ------------------------------------------- main.rs: the overlay states

\* keybinds (Update): the overlay key was just pressed.  The two set_state
\* commands write NextState<AppState> and NextState<PlatOverlayPhase>, over
\* what was pending; the states change in the next StateTransition.
keybinds ==
  /\ started
  /\ ~crashed
  /\ Len(tasks) < MaxTasks
  /\ next_app' = "PlatOverlay"
  /\ next_phase' = "Ocr"
  /\ UNCHANGED << appState, phase, delayed, recv_pc, polled >>
  /\ UNCHANGED << ocrVars, imgVars, chanVars, crashed >>
  /\ UNCHANGED << call, data, close_layout_after, started >>

\* display_plat: ItemData was inserted on some entity, an item of the
\* container ("item") or any other entity such as the one fetch_oldest
\* spawns ("other").  While State<PlatOverlayPhase> is Ocr it writes
\* Displaying to NextState<PlatOverlayPhase> and queues a delayed return to
\* Waiting, at every insert.  The delay is
\* Duration::from_secs_f32(conf.close_layout_after), which panics in the
\* observer, before its commands are applied, on a value no Duration holds.
display_plat ==
  /\ started
  /\ ~crashed
  /\ \E kind \in {"item", "other"} : kind = "item" => children # << >>
  /\ IF phase = "Ocr"
     THEN IF from_secs_f32_panics(close_layout_after)
          THEN /\ crashed' = TRUE
               /\ UNCHANGED << next_phase, delayed >>
          ELSE /\ delayed < MaxDelayed
               /\ next_phase' = "Displaying"
               /\ delayed' = delayed + 1
               /\ UNCHANGED crashed
     ELSE UNCHANGED << next_phase, delayed, crashed >>
  /\ UNCHANGED << appState, phase, next_app, recv_pc, polled >>
  /\ UNCHANGED << ocrVars, imgVars, chanVars >>
  /\ UNCHANGED << call, data, close_layout_after, started >>

\* command_after (Update): the timer of a DelayedCommandQueue has just
\* finished; the entity is despawned and its queue writes Waiting to
\* NextState<AppState>.
command_after ==
  /\ started
  /\ ~crashed
  /\ delayed > 0
  /\ delayed' = delayed - 1
  /\ next_app' = "Waiting"
  /\ UNCHANGED << appState, phase, next_phase, recv_pc, polled >>
  /\ UNCHANGED << ocrVars, imgVars, chanVars, crashed >>
  /\ UNCHANGED << call, data, close_layout_after, started >>

\* ------------------------------------- bevy_state: the StateTransition

\* apply_state_transition::<AppState>: a pending NextState is taken and
\* becomes the state; a StateTransitionEvent is sent even if it is the state
\* the app was in.
ParentChanged == next_app # "None"
AppAfter == IF ParentChanged THEN next_app ELSE appState

\* apply_state_transition of the sub-state.  When the parent changed the
\* sub-state exists exactly if AppState is PlatOverlay and is then the
\* pending phase, else the current one, else the default, Ocr; when only a
\* phase is pending it replaces the current one, if there is one.
PhaseAfter ==
  IF ParentChanged
  THEN IF AppAfter = "PlatOverlay"
       THEN IF next_phase # "None" THEN next_phase
            ELSE IF phase # "None" THEN phase ELSE "Ocr"
       ELSE "None"
  ELSE IF next_phase # "None" /\ phase # "None" THEN next_phase ELSE phase

\* The sub-state sends a StateTransitionEvent: it ran and there is a state
\* to leave or to enter.
PhaseEvent ==
  /\ ParentChanged \/ next_phase # "None"
  /\ phase # "None" \/ PhaseAfter # "None"

\* The StateTransition schedule, at the start of every frame, before Update.
\* Both NextState are taken.  OnEnter(PlatOverlayPhase::Ocr) runs
\* start_ocr_task when the phase becomes Ocr; when it is Ocr already, whether
\* the transition to the same state runs OnEnter depends on the state
\* plugin's version.
StateTransition ==
  /\ started
  /\ ~crashed
  /\ recv_pc = "done"
  /\ phase = "Ocr" => polled
  /\ commands = << >>
  /\ appState' = AppAfter
  /\ phase' = PhaseAfter
  /\ next_app' = "None"
  /\ next_phase' = "None"
  /\ recv_pc' = "meta"
  /\ polled' = FALSE
  /\ IF PhaseEvent /\ PhaseAfter = "Ocr"
     THEN IF phase = "Ocr"
          THEN \E reenter \in BOOLEAN :
                 IF reenter THEN start_ocr_task
                 ELSE /\ last_start' = Met("notrun")
                      /\ UNCHANGED << current_task, tasks, container, children, commands,
                                      imgVars >>
          ELSE start_ocr_task
     ELSE UNCHANGED << current_task, tasks, container, children, commands, last_start,
                       imgVars >>
  /\ UNCHANGED << delayed, crashed, chanVars, engine_lock >>
  /\ UNCHANGED << call, data, close_layout_after, started >>

\* ------------------------------------------------------ specifications

Next ==
  \/ setup
  \/ ProcessCallback
  \/ ParamChanged
  \/ ProducerDrain
  \/ ProducerSend
  \/ receive_frames
  \/ StateTransition
  \/ keybinds
  \/ WorkerStart
  \/ EngineLock
  \/ EngineUnlock
  \/ WorkerFinish
  \/ get_ocr_result
  \/ ApplyDeferred
  \/ display_plat
  \/ command_after

\* No action of Next reads or writes the DataManager; the application is
\* followed from a start with nothing saved.
Spec == FirstStart /\ [][Next]_vars

\* A step of the main thread: Startup, then frame after frame
\* StateTransition and Update with receive_frames and, in phase Ocr,
\* get_ocr_result and the sync point after it.  One of them can be taken in
\* every state of an app that has not panicked.
MainThread ==
  setup \/ receive_frames \/ StateTransition \/ get_ocr_result \/ ApplyDeferred

\* Some task has reached the point where detect_once returns.
CanFinish ==
  /\ ~crashed
  /\ \E t \in 1..Len(tasks) :
       \/ tasks[t].st \in {"assembling", "returning"}
       \/ /\ tasks[t].st = "running"
          /\ CropIsEmpty(tasks[t].img, tasks[t].ocr_bounds)

\* The main thread runs frame after frame until the app panics, so
\* get_ocr_result runs in every frame whose phase is Ocr; a timer that was
\* queued finishes; the task pool runs what is spawned on it and the capture
\* thread finishes a callback it has begun.  Nothing obliges the user to
\* press the overlay key.  The fairness of MainThread and of WorkerFinish is
\* weak fairness written out, with the condition under which the action can
\* be taken in place of ENABLED.
FairSpec ==
  /\ Spec
  /\ ([]<>crashed \/ []<><<MainThread>>_vars)
  /\ ([]<>~CanFinish \/ []<><<WorkerFinish>>_vars)
  /\ WF_vars(command_after)
  /\ WF_vars(WorkerStart)
  /\ WF_vars(EngineLock)
  /\ WF_vars(EngineUnlock)
  /\ WF_vars(ProducerDrain)
  /\ WF_vars(ProducerSend)


\* ------------------------------------------- market.rs: the DataManager

\* HashMap::insert / BTreeMap::insert: the entry for k is set, replacing one
\* that was there.
MapInsert(m, k, v) == [x \in (DOMAIN m) \cup {k} |-> IF x = k THEN v ELSE m[x]]

\* BTreeMap::remove: the entry for k is removed, if there is one.
MapRemove(m, k) == [x \in (DOMAIN m) \ {k} |-> m[x]]

\* The largest and the smallest of a non-empty set of keys.
LastKey(keys) == CHOOSE t \in keys : \A u \in keys : u <= t
FirstKey(keys) == CHOOSE t \in keys : \A u \in keys : t <= u

\* DataManager::insert(k, v)
insert(d, k, v) ==
  LET ordered == IF k \in DOMAIN d.map
                 THEN MapRemove(d.ordered, d.map[k].last_fetch)
                 ELSE d.ordered
  IN  [ map |-> MapInsert(d.map, k, v),
        ordered |-> MapInsert(ordered, v.last_fetch, k) ]

\* `ordered.last_key_value().map(|(i, _)| i + 1).unwrap_or(0u64)`
next_free(d) ==
  IF DOMAIN d.ordered = {} THEN 0 ELSE LastKey(DOMAIN d.ordered) + 1

\* DataManager::insert_unknown(k, ducats); of the ItemData only last_fetch
\* is kept here.
insert_unknown(d, k) ==
  IF k \in DOMAIN d.map THEN d
  ELSE [ map |-> MapInsert(d.map, k, [last_fetch |-> next_free(d)]),
         ordered |-> MapInsert(d.ordered, next_free(d), k) ]

\* DataManager::get_oldest: the first entry of ordered, <<last_fetch, key>>.
get_oldest(d) ==
  IF DOMAIN d.ordered = {} THEN None
  ELSE Some(<< FirstKey(DOMAIN d.ordered), d.ordered[FirstKey(DOMAIN d.ordered)] >>)

\* insert_new_into_storage: fetched ItemData of some slug, stamped with
\* unix_now() when the response arrived, is stored.
insert_new_into_storage ==
  /\ \E k \in SlugChoices : \E t \in 0..MaxTime :
       data' = insert(data, k, [last_fetch |-> t])
  /\ UNCHANGED << appVars, call >>

\* The response to the items request: insert_unknown for a prime item.
items_response ==
  /\ next_free(data) <= MaxTime
  /\ \E k \in SlugChoices : data' = insert_unknown(data, k)
  /\ UNCHANGED << appVars, call >>

DataNext ==
  \/ insert_new_into_storage
  \/ items_response

\* The DataManager on its own, under any sequence of insert and
\* insert_unknown calls.
DataSpec == Init /\ [][DataNext]_vars

\* ------------------------------------------- single calls: the inputs

\* Stored buffers get_latest_rgba is called on: empty, shorter than one
\* pixel, one pixel, two pixels, two pixels and a remainder.
BufChoices ==
  { << >>, <<1, 2>>, <<1, 2, 3>>, <<10, 20, 30, 40>>,
    <<10, 20, 30, 40, 50, 60, 70, 80>>,
    <<10, 20, 30, 40, 50, 60, 70, 80, 90>> }

\* VideoFormat: the four converted formats and Other(name).
FormatChoices == {"Bgra", "BGRx", "Rgba", "RGBx", "Other"}

\* Stored metadata get_latest_rgba is called with.
SizeChoices == { <<0, 0>>, <<1, 1>>, <<2, 1>> }

\* Byte values of a pixel's channels.
ByteChoices == {0, 1, 10, 127, 128, 255}

\* One-pixel containers from_raw_bgra is called on, every combination of
\* ByteChoices, and a two-pixel one with a remainder.
PixelChoices ==
  { <<b0, b1, b2, b3>> : b0 \in ByteChoices, b1 \in ByteChoices,
                         b2 \in ByteChoices, b3 \in ByteChoices }

\* u32 values the aspect-ratio test is called with: small ones, real
\* resolutions, 2^16, 2^20, 2^31 and u32::MAX.
U32Choices ==
  { <<0, 0>>, <<0, 1>>, <<0, 2>>, <<0, 9>>, <<0, 16>>, <<0, 1080>>, <<0, 1920>>,
    <<1, 0>>, <<16, 0>>, <<32768, 0>>, <<65535, 65535>> }

\* Colours of pixels and of pixel checks.
\* <<100, 100, 100, 255>> and <<151, 100, 100, 255>> are 51/255 = 0.2 apart,
\* <<199, 164, 60, 255>> and <<223, 119, 60, 255>> too (24, 45, 0).
ColorChoices ==
  { <<255, 255, 255, 255>>, <<254, 254, 254, 255>>, <<255, 255, 255, 0>>,
    <<230, 255, 255, 255>>, <<229, 255, 255, 255>>, <<0, 0, 0, 255>>,
    <<10, 20, 30, 40>>, <<30, 20, 10, 40>>,
    <<100, 100, 100, 255>>, <<151, 100, 100, 255>>,
    <<199, 164, 60, 255>>, <<223, 119, 60, 255>> }

\* Tolerances of pixel checks: 0, 0.1, 0.2, 1/255 (0.00392156862745098), 1,
\* 3 and -0.1.
ToleranceChoices ==
  { <<0, 1>>, <<1, 10>>, <<1, 5>>, <<1, 255>>, <<1, 1>>, <<3, 1>>, <<-1, 10>> }

\* Pixel checks of the options LayoutOption::matches is called on: inside a
\* 2x1 frame, with and without tolerance, and outside it in x, in y, in both.
CheckChoices ==
  { [x |-> 0, y |-> 0, color |-> <<10, 20, 30, 40>>, tolerance |-> <<0, 1>>],
    [x |-> 1, y |-> 0, color |-> <<50, 60, 70, 80>>, tolerance |-> <<0, 1>>],
    [x |-> 0, y |-> 0, color |-> <<12, 20, 30, 0>>, tolerance |-> <<1, 10>>],
    [x |-> 2, y |-> 0, color |-> <<10, 20, 30, 40>>, tolerance |-> <<0, 1>>],
    [x |-> 0, y |-> 1, color |-> <<10, 20, 30, 40>>, tolerance |-> <<1, 1>>],
    [x |-> 7, y |-> 7, color |-> <<10, 20, 30, 40>>, tolerance |-> <<3, 1>>] }

\* Sequences over a set, of a length up to n.
RECURSIVE SeqsUpTo(_, _)
SeqsUpTo(S, n) ==
  IF n = 0 THEN { << >> }
  ELSE LET shorter == SeqsUpTo(S, n - 1)
       IN  shorter \cup { Append(q, x) : q \in shorter, x \in S }

\* Images the selection is called on: the 2x1 frame the first pixel check
\* expects, one whose first pixel is in BGR order, a 1x1 frame and an empty
\* one.
ImageChoices ==
  { [width |-> 2, height |-> 1, data |-> <<10, 20, 30, 40, 50, 60, 70, 80>>],
    [width |-> 2, height |-> 1, data |-> <<30, 20, 10, 40, 50, 60, 70, 80>>],
    [width |-> 1, height |-> 1, data |-> <<10, 20, 30, 40>>],
    [width |-> 0, height |-> 0, data |-> <<10, 20, 30, 40>>] }

\* A 2x3 frame, and the ratio 1431655766:1 whose product with its height is
\* 2^32 + 2.
TallImage ==
  [width |-> 2, height |-> 3,
   data |-> <<10, 20, 30, 40, 50, 60, 70, 80, 10, 20, 30, 40,
              50, 60, 70, 80, 10, 20, 30, 40, 50, 60, 70, 80>>]
WrappingRatio == <<1431655766, 1>>

\* The Layout an option carries, told apart by its offset.
LayoutOf(k) ==
  [offset |-> <<k, 0>>, size |-> <<1, 1>>, reference_resolution |-> <<2, 1>>]

\* Options a configuration lists.
OptionChoices ==
  { [ aspect_ratio |-> <<2, 1>>,
      pixel_checks |-> << [x |-> 0, y |-> 0, color |-> <<10, 20, 30, 40>>,
                           tolerance |-> <<0, 1>>] >>,
      config |-> LayoutOf(1) ],
    [ aspect_ratio |-> <<2, 1>>, pixel_checks |-> << >>, config |-> LayoutOf(2) ],
    [ aspect_ratio |-> <<1, 1>>, pixel_checks |-> << >>, config |-> LayoutOf(3) ],
    [ aspect_ratio |-> <<2, 1>>,
      pixel_checks |-> << [x |-> 5, y |-> 0, color |-> <<10, 20, 30, 40>>,
                           tolerance |-> <<0, 1>>] >>,
      config |-> LayoutOf(4) ] }

\* Options for the 2x3 frame: one whose ratio is the frame's, and one whose
\* product with the frame's height does not fit a u32.
TallOptionChoices ==
  { [ aspect_ratio |-> WrappingRatio, pixel_checks |-> << >>, config |-> LayoutOf(1) ],
    [ aspect_ratio |-> <<2, 3>>, pixel_checks |-> << >>, config |-> LayoutOf(2) ] }

\* Layouts and frame sizes get_ocr_bounds is called with.
OffsetChoices == { <<0, 0>>, <<1, 2>>, <<478, 411>> }
LayoutSizeChoices == { <<1, 1>>, <<965, 49>> }
ReferenceChoices == { <<2, 1>>, <<2, 2>>, <<1920, 1080>> }
ImgSizeChoices ==
  { <<2, 1>>, <<4, 2>>, <<3, 2>>, <<1280, 720>>, <<1920, 1080>>, <<2560, 1440>>,
    <<3840, 2160>> }

\* Words detect_columns is called on.  The first three are the example of
\* the specification; Bp is 15 right of Lex; Barrel is 30 right of Lex and
\* Receiver is centred on the midpoint of that gap; Long spans the others.
WordChoices ==
  { [text |-> "Lex", min |-> <<0, 0>>, max |-> <<10, 6>>],
    [text |-> "Prime", min |-> <<12, 2>>, max |-> <<20, 8>>],
    [text |-> "Forma", min |-> <<100, 0>>, max |-> <<110, 6>>],
    [text |-> "Bp", min |-> <<25, 0>>, max |-> <<35, 6>>],
    [text |-> "Barrel", min |-> <<40, 10>>, max |-> <<50, 16>>],
    [text |-> "Receiver", min |-> <<0, 10>>, max |-> <<50, 16>>],
    [text |-> "Long", min |-> <<0, 20>>, max |-> <<100, 26>>] }

\* Gap thresholds: the 15 detect_once passes, and 0.
ThresholdChoices == {0, 15}

\* What recognize_text returns for a line: nothing, or a line of one, two or
\* three words.
LineChoices ==
  { None, Some(<<"Lex">>), Some(<<"Lex", "Prime">>), Some(<<"Forma", "Bp", "Barrel">>) }

\* A call that has not returned yet.
Pending(fn, arg) == [fn |-> fn, arg |-> arg, done |-> FALSE, ret |-> None]

get_latest_rgba_calls ==
  { Pending("get_latest_rgba",
            [buf |-> b, meta |-> [width |-> sz[1], height |-> sz[2], format |-> f]]) :
      b \in BufChoices, sz \in SizeChoices, f \in FormatChoices }

from_raw_bgra_calls ==
  { Pending("from_raw_bgra", [width |-> 1, height |-> 1, container |-> p]) :
      p \in PixelChoices }
  \cup
  { Pending("from_raw_bgra", [width |-> 2, height |-> 1, container |-> p \o q \o <<9>>]) :
      p \in {<<10, 20, 30, 40>>, <<255, 0, 128, 1>>},
      q \in {<<50, 60, 70, 80>>, <<0, 255, 1, 127>>} }

aspect_ratio_matches_calls ==
  { Pending("aspect_ratio_matches",
            [option |-> [aspect_ratio |-> <<a, b>>], img_width |-> w, img_height |-> h]) :
      a \in U32Choices, b \in U32Choices, w \in U32Choices, h \in U32Choices }

matches_pixel_calls ==
  { Pending("matches_pixel",
            [check |-> [x |-> 0, y |-> 0, color |-> c, tolerance |-> t], pixel |-> px]) :
      c \in ColorChoices, t \in ToleranceChoices, px \in ColorChoices }

matches_calls ==
  { Pending("matches",
            [option |-> [aspect_ratio |-> ar, pixel_checks |-> cs, config |-> LayoutOf(1)],
             image |-> im]) :
      ar \in { <<2, 1>>, <<1, 1>> }, cs \in SeqsUpTo(CheckChoices, MaxChecks),
      im \in ImageChoices }
  \cup
  { Pending("matches",
            [option |-> [aspect_ratio |-> ar, pixel_checks |-> cs, config |-> LayoutOf(1)],
             image |-> TallImage]) :
      ar \in { WrappingRatio, <<2, 3>> }, cs \in SeqsUpTo(CheckChoices, 1) }

find_matching_layout_calls ==
  { Pending("find_matching_layout",
            [config |-> [save_to_disk |-> FALSE, layouts |-> ls], image |-> im]) :
      ls \in SeqsUpTo(OptionChoices, MaxLayouts), im \in ImageChoices }
  \cup
  { Pending("find_matching_layout",
            [config |-> [save_to_disk |-> FALSE, layouts |-> ls], image |-> TallImage]) :
      ls \in SeqsUpTo(TallOptionChoices, 2) }

get_ocr_bounds_calls ==
  { Pending("get_ocr_bounds",
            [layout |-> [offset |-> o, size |-> sz, reference_resolution |-> r],
             img_size |-> im]) :
      o \in OffsetChoices, sz \in LayoutSizeChoices, r \in ReferenceChoices,
      im \in ImgSizeChoices }

detect_columns_calls ==
  { Pending("detect_columns", [words |-> ws, gap_threshold |-> g]) :
      ws \in SeqsUpTo(WordChoices, MaxWords), g \in ThresholdChoices }

assemble_lines_calls ==
  { Pending("assemble_lines", [line_texts |-> ls]) :
      ls \in SeqsUpTo(LineChoices, MaxLines) }

\* ------------------------------------------ single calls: the actions

\* A call returns: the record of the call, completed.
Returned(ret) == [call EXCEPT !.done = TRUE, !.ret = ret]

\* LatestImage::get_latest_rgba is called on a LatestImage holding
\* call.arg.buf and call.arg.meta.
call_get_latest_rgba ==
  /\ call.fn = "get_latest_rgba"
  /\ ~call.done
  /\ call' = Returned(get_latest_rgba(call.arg.buf, call.arg.meta))
  /\ UNCHANGED << appVars, data >>

\* from_raw_bgra is called.
call_from_raw_bgra ==
  /\ call.fn = "from_raw_bgra"
  /\ ~call.done
  /\ call' = Returned(from_raw_bgra(call.arg.width, call.arg.height,
                                    call.arg.container))
  /\ UNCHANGED << appVars, data >>

\* LayoutOption::aspect_ratio_matches is called.  Whether u32 overflow
\* panics or wraps is the build's choice (overflow-checks).
call_aspect_ratio_matches ==
  /\ call.fn = "aspect_ratio_matches"
  /\ ~call.done
  /\ \E overflow_checks \in BOOLEAN :
       LET panicked ==
             /\ overflow_checks
             /\ aspect_ratio_overflows(call.arg.option, call.arg.img_width,
                                       call.arg.img_height)
       IN  call' = Returned(
             [ panicked |-> panicked,
               value |-> /\ ~panicked
                         /\ aspect_ratio_matches(call.arg.option, call.arg.img_width,
                                                 call.arg.img_height) ])
  /\ UNCHANGED << appVars, data >>

\* PixelCheck::matches_pixel is called.
call_matches_pixel ==
  /\ call.fn = "matches_pixel"
  /\ ~call.done
  /\ call' = Returned(matches_pixel(call.arg.check, call.arg.pixel))
  /\ UNCHANGED << appVars, data >>

\* LayoutOption::matches is called: what it returns, the pixels
\* verify_pixel_checks read on the way, whether the aspect-ratio test
\* panicked on an overflow (the build's choice, overflow-checks) and whether
\* get_pixel panicked.  verify_pixel_checks runs only if the aspect ratio
\* matched.
call_matches ==
  /\ call.fn = "matches"
  /\ ~call.done
  /\ \E overflow_checks \in BOOLEAN :
       LET overflowed ==
             /\ overflow_checks
             /\ matches_overflows(call.arg.option, call.arg.image)
           reads == IF ~overflowed
                       /\ matches_aspect_only(call.arg.option, call.arg.image)
                    THEN PixelReads(call.arg.option, call.arg.image)
                    ELSE { }
           panicked == \E r \in reads :
                         GetPixel(call.arg.image, r[1], r[2]) = << >>
       IN  call' = Returned(
             [ overflowed |-> overflowed,
               panicked |-> panicked,
               value |-> /\ ~overflowed
                         /\ ~panicked
                         /\ matches(call.arg.option, call.arg.image),
               reads |-> reads ])
  /\ UNCHANGED << appVars, data >>

\* Config::find_matching_layout and Config::find_all_matching_layouts are
\* called on the same configuration and image.  Whether an overflow in the
\* aspect-ratio test of an option panics or wraps is the build's choice
\* (overflow-checks); a call that panicked returned nothing.
call_find_matching_layout ==
  /\ call.fn = "find_matching_layout"
  /\ ~call.done
  /\ \E overflow_checks \in BOOLEAN :
       LET first_panicked ==
             /\ overflow_checks
             /\ find_matching_layout_overflows(call.arg.config, call.arg.image)
           all_panicked ==
             /\ overflow_checks
             /\ find_all_matching_layouts_overflows(call.arg.config, call.arg.image)
       IN  call' = Returned(
             [ first_panicked |-> first_panicked,
               all_panicked |-> all_panicked,
               first |-> IF first_panicked THEN None
                         ELSE find_matching_layout(call.arg.config, call.arg.image),
               all |-> IF all_panicked THEN << >>
                       ELSE find_all_matching_layouts(call.arg.config,
                                                      call.arg.image) ])
  /\ UNCHANGED << appVars, data >>

\* Layout::get_ocr_bounds is called.
call_get_ocr_bounds ==
  /\ call.fn = "get_ocr_bounds"
  /\ ~call.done
  /\ call' = Returned(get_ocr_bounds(call.arg.layout, call.arg.img_size))
  /\ UNCHANGED << appVars, data >>

\* detect_columns is called.
call_detect_columns ==
  /\ call.fn = "detect_columns"
  /\ ~call.done
  /\ call' = Returned(detect_columns(call.arg.words, call.arg.gap_threshold))
  /\ UNCHANGED << appVars, data >>

\* detect_once builds the words and lines from what recognize_text returned.
call_assemble_lines ==
  /\ call.fn = "assemble_lines"
  /\ ~call.done
  /\ call' = Returned(AssembleLines(call.arg.line_texts))
  /\ UNCHANGED << appVars, data >>

\* One function is called once, on any of the inputs.
FnInit ==
  /\ AppInit
  /\ call \in get_latest_rgba_calls \cup from_raw_bgra_calls
              \cup aspect_ratio_matches_calls \cup matches_pixel_calls
              \cup matches_calls \cup find_matching_layout_calls
              \cup get_ocr_bounds_calls \cup detect_columns_calls
              \cup assemble_lines_calls
  /\ close_layout_after = DefaultCloseAfter
  /\ data = EmptyData

FnNext ==
  \/ call_get_latest_rgba
  \/ call_from_raw_bgra
  \/ call_aspect_ratio_matches
  \/ call_matches_pixel
  \/ call_matches
  \/ call_find_matching_layout
  \/ call_get_ocr_bounds
  \/ call_detect_columns
  \/ call_assemble_lines

FnSpec == FnInit /\ [][FnNext]_vars

\* ------------------------------------------------------------ properties

InFlight(t) ==
  tasks[t].st \in {"queued", "running", "engine", "assembling", "returning"}

\* What get_latest_rgba yields in the current state.
Latest == get_latest_rgba(latest_img.bytes, latest_meta)

\* The stored buffer is shorter than the stored metadata asks for.
BufferTooShort ==
  Len(latest_img.bytes) < latest_meta.width * latest_meta.height * 4

\* The StateTransition of this step sends a transition into the Ocr phase,
\* the one OnEnter(PlatOverlayPhase::Ocr) is scheduled on: the trigger of a
\* key press takes effect.
OnEnterOcr == StateTransition /\ PhaseEvent /\ PhaseAfter = "Ocr"

\* C1: at most one OCR task is in flight at any time, and it is the one
\* OcrTask holds: every task that was spawned and whose output no poll has
\* taken yet is still the held task, so start_ocr_task never spawned a second
\* task beside it nor replaced it.
C1_AtMostOneInFlight ==
  /\ Cardinality({t \in 1..Len(tasks) : InFlight(t)}) <= 1
  /\ \A t \in 1..Len(tasks) : tasks[t].st # "taken" => current_task = t

\* C1 witness: a trigger arrived while the held task was running.
C1_Witness ==
  /\ current_task # NoTask
  /\ tasks[current_task].st = "running"
  /\ last_start.outcome = "held"

\* C2: after the poll that sees a failed result OcrTask is empty: a task whose
\* Err a poll has taken is no longer held.
C2_FailureReturnsToIdle ==
  \A t \in 1..Len(tasks) :
     (tasks[t].st = "taken" /\ tasks[t].res = "Err") => current_task # t

\* C3: a press of the overlay key while a task is held leaves the held task,
\* the tasks, the stored buffer and metadata and the items container as they
\* are, at the press and when the transition it asked for enters the phase.
C3_TriggerWhileHeldIsNoOp ==
  [][((keybinds \/ OnEnterOcr) /\ current_task # NoTask)
       => UNCHANGED << current_task, tasks, latest_img, latest_meta,
                       container, children >>]_vars

\* C3 witness: start_ocr_task met a held task while a usable frame was
\* stored, and the frame is still stored.
C3_Witness ==
  /\ last_start.outcome = "held"
  /\ last_start.len >= MinFrameBytes
  /\ current_task # NoTask
  /\ Latest.img # None

\* C4: the poll that observes a completed task, successful or failed, leaves
\* the scheduler Idle, so the task is never polled again.
C4_ConsumedExactlyOnce ==
  [][(get_ocr_result /\ current_task # NoTask
        /\ tasks[current_task].st = "finished")
       => current_task' = NoTask]_vars

\* C5: Running is never permanent: while the app has not panicked, a held
\* task is eventually followed by OcrTask being empty again.
C5_RunningNotPermanent ==
  (current_task # NoTask /\ ~crashed) ~> (current_task = NoTask \/ crashed)

\* C6: a task is spawned only from Idle, only when get_latest_rgba yields an
\* image and some configured LayoutOption matches it, and it becomes the held
\* task; a press of the key that finds no image or no matching layout spawns
\* nothing and leaves the scheduler Idle.
C6_SpawnNeedsFrameAndLayout ==
  /\ [][Len(tasks') > Len(tasks)
          => /\ current_task = NoTask
             /\ Latest.img # None
             /\ find_matching_layout(conf, Latest.img[1]) # None
             /\ current_task' = Len(tasks')]_vars
  /\ [][((keybinds \/ OnEnterOcr) /\ current_task = NoTask
           /\ (Latest.img = None \/ find_matching_layout(conf, Latest.img[1]) = None))
          => (current_task' = NoTask /\ tasks' = tasks)]_vars

\* C6 witness: start_ocr_task has just spawned a task.
C6_Witness ==
  /\ last_start.outcome = "spawned"
  /\ current_task # NoTask
  /\ tasks[current_task].st = "queued"

\* C7: once the capture thread is out of its callback and at least one
\* publish has completed since the last try_recv on a channel, the channel
\* holds exactly the most recently published value; receive_frames' try_recv
\* on it then stores that value and leaves the channel empty, so the
\* try_recv after it yields nothing.
C7_ChannelFreshness ==
  /\ []((prod_pc \notin {"frame_drain", "frame_send"} /\ untaken_frames >= 1)
          => (Len(frames_chan) = 1 /\ frames_chan[1].seq = nframes))
  /\ []((prod_pc \notin {"meta_drain", "meta_send"} /\ untaken_metas >= 1)
          => (Len(meta_chan) = 1 /\ meta_chan[1].seq = nmetas))
  /\ [][(receive_frames /\ recv_pc = "frame" /\ frames_chan # << >>)
          => (latest_img' = frames_chan[1] /\ TryRecvValue(frames_chan') = None)]_vars
  /\ [][(receive_frames /\ recv_pc = "meta" /\ meta_chan # << >>)
          => (latest_meta' = meta_chan[1] /\ TryRecvValue(meta_chan') = None)]_vars

\* C7 witness: two frames were published with no try_recv in between and the
\* channel holds the second.
C7_Witness ==
  /\ prod_pc = "idle"
  /\ untaken_frames = 2
  /\ frames_chan # << >>
  /\ frames_chan[1].seq = 2

\* C8: whenever the capture thread is at its send the channel it sends on is
\* below capacity, so the send does not block, and neither channel ever holds
\* more than one value.
C8_SendNeverBlocks ==
  /\ prod_pc = "frame_send" => Len(frames_chan) < Capacity
  /\ prod_pc = "meta_send" => Len(meta_chan) < Capacity
  /\ Len(frames_chan) <= 1
  /\ Len(meta_chan) <= 1

\* C8 witness: the capture thread is at its send after it drained a value
\* of an earlier publish that receive_frames had not taken.
C8_Witness ==
  /\ prod_pc = "frame_send"
  /\ untaken_frames >= 1
  /\ frames_chan = << >>

\* C9: while the stored buffer is shorter than width x height x 4,
\* get_latest_rgba yields nothing, and a press of the overlay key spawns no
\* task and does not panic.
C9_ShortBufferIsNoFrame ==
  /\ [](BufferTooShort => Latest.img = None)
  /\ [][((keybinds \/ OnEnterOcr) /\ BufferTooShort)
          => (current_task' = current_task /\ tasks' = tasks /\ ~crashed')]_vars

\* C9 witness: start_ocr_task met a buffer of at least 4 bytes, in a
\* supported format, that was shorter than the metadata asked for, and
\* started nothing.
C9_Witness ==
  /\ last_start.outcome = "noframe"
  /\ last_start.len >= MinFrameBytes
  /\ last_start.len < last_start.need
  /\ last_start.format \in {"Rgba", "BGRx"}
  /\ ~crashed

\* C10: when start_ocr_task got an image the stored buffer is empty
\* afterwards, and no two tasks were given the bytes of the same frame.
C10_FrameIsMoved ==
  /\ [][(OnEnterOcr /\ last_start'.outcome \in {"spawned", "nolayout"})
          => latest_img' = NoFrame]_vars
  /\ [](\A t1, t2 \in 1..Len(tasks) : tasks[t1].seq = tasks[t2].seq => t1 = t2)

\* C10 witness: one frame was ever delivered and a task consumed it; a later
\* trigger, with the scheduler Idle, found the stored buffer empty.
C10_Witness ==
  /\ nframes = 1
  /\ Len(tasks) = 1
  /\ tasks[1].seq = 1
  /\ current_task = NoTask
  /\ last_start.outcome = "noframe"
  /\ last_start.len = 0

\* A call of fn has returned.
Done(fn) == call.fn = fn /\ call.done

\* C11: get_latest_rgba on a stored buffer of fewer than 4 bytes returns
\* nothing, whatever the metadata, and leaves the stored buffer as it was
\* (the metadata is an argument the function never writes).
C11_UnderFourBytesIsNoFrame ==
  (Done("get_latest_rgba") /\ Len(call.arg.buf) < MinFrameBytes)
    => (call.ret.img = None /\ call.ret.buf = call.arg.buf)

\* C11 witness: a non-empty buffer of fewer than 4 bytes met metadata whose
\* size it satisfies (0x0, a converted format), and nothing was returned.
C11_Witness ==
  /\ Done("get_latest_rgba")
  /\ Len(call.arg.buf) \in 1..(MinFrameBytes - 1)
  /\ ImageFits(call.arg.meta.width, call.arg.meta.height, Len(call.arg.buf))
  /\ call.arg.meta.format = "Bgra"
  /\ call.ret.img = None
  /\ call.ret.buf = call.arg.buf

\* C12: get_latest_rgba on a frame of at least 4 bytes whose format is
\* Other(name) returns nothing and drops the frame: the stored buffer is
\* empty afterwards.
C12_OtherFormatFrameDropped ==
  (Done("get_latest_rgba") /\ call.arg.meta.format = "Other"
     /\ Len(call.arg.buf) >= MinFrameBytes)
    => (call.ret.img = None /\ call.ret.buf = << >>)

\* C13: from_raw_bgra returns an image whenever the container holds
\* width * height * 4 bytes, and every complete 4-byte chunk (b0,b1,b2,b3) of
\* the container is (b2,b1,b0,b3) in it; a remainder is left as it was.
C13_BgraToRgba ==
  Done("from_raw_bgra") =>
    LET c == call.arg.container
    IN  /\ call.ret # None
        /\ Len(call.ret[1].data) = Len(c)
        /\ \A k \in 0..((Len(c) \div 4) - 1) :
             SubSeq(call.ret[1].data, 4 * k + 1, 4 * k + 4)
               = << c[4 * k + 3], c[4 * k + 2], c[4 * k + 1], c[4 * k + 4] >>
        /\ \A i \in (4 * (Len(c) \div 4) + 1)..Len(c) : call.ret[1].data[i] = c[i]

\* C13 witness: a pixel whose four bytes all differ was converted.
C13_Witness ==
  /\ Done("from_raw_bgra")
  /\ call.arg.container = <<255, 0, 128, 1>>
  /\ call.ret = Some([width |-> 1, height |-> 1, data |-> <<128, 0, 255, 1>>])

\* C15: for all u32 widths w, heights h and ratios [a,b],
\* aspect_ratio_matches does not panic and returns true exactly when the
\* exact products a*h and b*w are equal.
C15_AspectRatioExact ==
  Done("aspect_ratio_matches") =>
    /\ ~call.ret.panicked
    /\ call.ret.value
         <=> (WideMul(call.arg.option.aspect_ratio[1], call.arg.img_height)
                = WideMul(call.arg.option.aspect_ratio[2], call.arg.img_width))

\* The aspect ratio a:b of the option is that of the image: a * h = b * w.
AspectHolds(option, image) ==
  WideMul(U32(option.aspect_ratio[1]), U32(image.height))
    = WideMul(U32(option.aspect_ratio[2]), U32(image.width))

\* The check's coordinates lie inside the image.
InFrame(check, image) == check.x < image.width /\ check.y < image.height

\* The check lies inside the image and the pixel there is within its
\* tolerance.
CheckHolds(check, image) ==
  /\ InFrame(check, image)
  /\ matches_pixel(check,
       SubSeq(image.data, (check.y * image.width + check.x) * 4 + 1,
                          (check.y * image.width + check.x) * 4 + 4))

\* The option's aspect ratio is the image's and each of its checks holds.
Fits(option, image) ==
  /\ AspectHolds(option, image)
  /\ \A i \in 1..Len(option.pixel_checks) : CheckHolds(option.pixel_checks[i], image)

\* C14: find_matching_layout returns nothing exactly when no option
\* matches, and otherwise the Layout of the matching option of lowest index;
\* find_all_matching_layouts lists the matching options in configured order
\* and the result of find_matching_layout is the Layout of its first element.
\* An option matches when its aspect ratio is the frame's and each of its
\* pixel checks holds; both lookups return.  (Both take the configuration
\* and the image by shared reference: the call leaves its arguments as they
\* were.)
C14_FirstMatchWins ==
  Done("find_matching_layout") =>
    LET layouts == call.arg.config.layouts
        hits == { i \in 1..Len(layouts) : Fits(layouts[i], call.arg.image) }
    IN  /\ ~call.ret.first_panicked
        /\ ~call.ret.all_panicked
        /\ (call.ret.first = None) <=> (hits = { })
        /\ \A i \in hits :
             (\A j \in hits : i <= j) => call.ret.first = Some(layouts[i].config)
        /\ Len(call.ret.all) = Cardinality(hits)
        /\ \A k \in 1..Len(call.ret.all) :
             \E i \in hits : /\ call.ret.all[k] = layouts[i]
                             /\ Cardinality({ j \in hits : j < i }) = k - 1
        /\ (call.ret.all = << >>) <=> (call.ret.first = None)
        /\ call.ret.all # << >> => call.ret.first = Some(call.ret.all[1].config)

\* C16: LayoutOption::matches returns, and is true exactly when the
\* aspect-ratio test holds and every pixel check of the option passes; with
\* no pixel checks the aspect ratio alone decides, and one failing check
\* makes it false.
C16_MatchIffAspectAndChecks ==
  Done("matches") =>
    LET option == call.arg.option
        image == call.arg.image
    IN  /\ ~call.ret.overflowed
        /\ call.ret.value <=> Fits(option, image)
        /\ option.pixel_checks = << >>
             => (call.ret.value <=> AspectHolds(option, image))
        /\ (\E i \in 1..Len(option.pixel_checks) :
              ~CheckHolds(option.pixel_checks[i], image))
             => ~call.ret.value

\* C17: a pixel check whose x is at least the width or whose y is at least
\* the height fails: the option does not match, get_pixel does not panic,
\* and every pixel that is read lies inside the frame.  (call.ret.panicked
\* is get_pixel's panic; the aspect-ratio test's is call.ret.overflowed.)
C17_OutOfFrameCheckFails ==
  Done("matches") =>
    LET option == call.arg.option
        image == call.arg.image
    IN  /\ ~call.ret.panicked
        /\ \A r \in call.ret.reads : r[1] < image.width /\ r[2] < image.height
        /\ (\E i \in 1..Len(option.pixel_checks) :
              ~InFrame(option.pixel_checks[i], image))
             => ~call.ret.value

\* C17 witness: the aspect ratio matched, the first check passed and was
\* read, the second lay below the frame (y out of range, x in range), and
\* the option did not match.
C17_Witness ==
  /\ Done("matches")
  /\ AspectHolds(call.arg.option, call.arg.image)
  /\ Len(call.arg.option.pixel_checks) = 2
  /\ CheckHolds(call.arg.option.pixel_checks[1], call.arg.image)
  /\ call.arg.option.pixel_checks[2].x < call.arg.image.width
  /\ call.arg.option.pixel_checks[2].y >= call.arg.image.height
  /\ call.ret.reads = { << call.arg.option.pixel_checks[1].x,
                           call.arg.option.pixel_checks[1].y >> }
  /\ ~call.ret.value
  /\ ~call.ret.panicked

\* The square of the Euclidean distance of two colours over red, green and
\* blue, in units of 1/255 per channel.
DistanceSquared(c1, c2) ==
  (c1[1] - c2[1]) * (c1[1] - c2[1]) + (c1[2] - c2[2]) * (c1[2] - c2[2])
    + (c1[3] - c2[3]) * (c1[3] - c2[3])

\* The greatest common divisor of two positive numbers.
RECURSIVE Gcd(_, _)
Gcd(a, b) == IF b = 0 THEN a ELSE Gcd(b, a % b)

\* The squares of the distance of two colours and of the tolerance n/d on a
\* common scale: distance^2 = dist / s and (n/d)^2 = tol / s for the same s.
Scaled(c1, c2, n, d) ==
  LET g == Gcd(d, 255)
  IN  [ dist |-> DistanceSquared(c1, c2) * (d \div g) * (d \div g),
        tol |-> n * n * (255 \div g) * (255 \div g) ]

\* C18: with tolerance 0 matches_pixel is true exactly when the sampled
\* colour equals the expected colour; with a tolerance t = n/d > 0 it is true
\* exactly when the Euclidean distance of the two colours (channels scaled
\* to 0..1) is at most t, so equal colours pass for every positive tolerance.
C18_ToleranceSemantics ==
  Done("matches_pixel") =>
    LET check == call.arg.check
        pixel == call.arg.pixel
        n == check.tolerance[1]
        d == check.tolerance[2]
        sc == Scaled(check.color, pixel, n, d)
    IN  /\ n = 0 => (call.ret <=> check.color = pixel)
        /\ n > 0 => (call.ret <=> sc.dist <= sc.tol)
        /\ (n > 0 /\ check.color = pixel) => call.ret

\* C18, amended: with tolerance 0, equality; with a tolerance t > 0, true
\* when distance^2 <= t^2 * 1024/1025 and false when distance^2 >
\* t^2 * 1025/1024; for a distance within that band of t, and at t itself,
\* the f32 rounding of the channels, the distance and the tolerance
\* decides.  Equal colours pass for every positive tolerance.
C18_ToleranceSemanticsUpToRounding ==
  Done("matches_pixel") =>
    LET check == call.arg.check
        pixel == call.arg.pixel
        n == check.tolerance[1]
        d == check.tolerance[2]
        sc == Scaled(check.color, pixel, n, d)
    IN  /\ n = 0 => (call.ret <=> check.color = pixel)
        /\ (n > 0 /\ sc.dist * 1025 <= sc.tol * 1024) => call.ret
        /\ (n > 0 /\ sc.dist * 1024 > sc.tol * 1025) => ~call.ret
        /\ (n > 0 /\ check.color = pixel) => call.ret

\* C18 witness: a colour that differs from the expected one, by less than
\* the positive tolerance, passed, and one further away did not.
C18_Witness ==
  /\ Done("matches_pixel")
  /\ call.arg.check.color = <<255, 255, 255, 255>>
  /\ \/ /\ call.arg.check.tolerance = <<1, 10>>
        /\ call.arg.pixel = <<230, 255, 255, 255>>
        /\ call.ret
     \/ /\ call.arg.check.tolerance = <<1, 10>>
        /\ call.arg.pixel = <<229, 255, 255, 255>>
        /\ ~call.ret

\* C19: the bounds are the layout's offset and size scaled, per axis, by
\* actual resolution / reference resolution (min * reference = offset *
\* actual, max * reference = (offset + size) * actual), and are the
\* configured offset and size when the two resolutions are equal.
C19_BoundsScaleWithResolution ==
  Done("get_ocr_bounds") =>
    LET layout == call.arg.layout
        actual == call.arg.img_size
    IN  /\ \A k \in 1..2 :
             /\ call.ret.min[k] * layout.reference_resolution[k]
                  = layout.offset[k] * actual[k]
             /\ call.ret.max[k] * layout.reference_resolution[k]
                  = (layout.offset[k] + layout.size[k]) * actual[k]
        /\ actual = layout.reference_resolution
             => /\ call.ret.min = layout.offset
                /\ call.ret.max = << layout.offset[1] + layout.size[1],
                                     layout.offset[2] + layout.size[2] >>

\* The bounds have zero width or zero height.
ZeroArea(bounds) ==
  bounds.max[1] - bounds.min[1] = 0 \/ bounds.max[2] - bounds.min[2] = 0

\* C20: a task whose OCR bounds have zero width or zero height returns an
\* Err without having locked the engine, and no item is ever spawned from it.
C20_DegenerateBoundsRejected ==
  \A t \in 1..Len(tasks) :
    (tasks[t].st \in {"finished", "taken"} /\ ZeroArea(tasks[t].ocr_bounds))
      => /\ tasks[t].res = "Err"
         /\ ~tasks[t].engine
         /\ tasks[t].n = 0
         /\ \A i \in 1..Len(children) : children[i].task # t

\* C20 witness: a task spawned with a scaling factor of 0 (a frame smaller
\* than the layout's reference resolution) has returned its Err.
C20_Witness ==
  \E t \in 1..Len(tasks) :
    /\ tasks[t].st = "finished"
    /\ ZeroArea(tasks[t].ocr_bounds)
    /\ tasks[t].img.width < 2
    /\ tasks[t].res = "Err"
    /\ ~tasks[t].engine

\* C21: the engine lock is held only by a task that is in its engine calls:
\* a task that is queued, cropping and preprocessing, assembling and
\* clustering, or has returned (with a result or with an Err) does not hold
\* it.
C21_EngineLockOnlyAroundEngineCalls ==
  /\ engine_lock # NoTask => tasks[engine_lock].st = "engine"
  /\ \A t \in 1..Len(tasks) : tasks[t].st # "engine" => engine_lock # t

\* C21 witness: a task that locked the engine has returned an Err from an
\* engine call, and the lock is free.
C21_Witness ==
  \E t \in 1..Len(tasks) :
    /\ tasks[t].st = "finished"
    /\ tasks[t].engine
    /\ tasks[t].res = "Err"
    /\ engine_lock = NoTask

\* The words of a returned detect_columns call in ascending left-x order,
\* and the gap between the k-th of them and the next.
Ascending == SortedWords(call.arg.words)
GapAfter(k) == Ascending[k + 1].min[1] - Ascending[k].max[1]

\* The column a word was pushed to.
ColumnHolding(w) ==
  CHOOSE c \in 1..Len(call.ret.columns) :
    \E i \in 1..Len(call.ret.columns[c]) : call.ret.columns[c][i] = w

\* The non-empty columns, in order: the columns the items were made from.
ItemColumns == SelectSeq(call.ret.columns, LAMBDA col : col # << >>)

\* How often x occurs in a sequence.
Count(seq, x) == Cardinality({ i \in 1..Len(seq) : seq[i] = x })

\* C22: detect_columns records a boundary between the k-th and the next word
\* in ascending left-x order exactly when next.left - current.right is
\* strictly greater than gap_threshold, at the midpoint of the two (kept as
\* twice its value), in that order; N boundaries give N + 1 columns.
C22_BoundaryIffGapExceeds ==
  (Done("detect_columns") /\ call.arg.words # << >>) =>
    LET splits == { k \in 1..(Len(Ascending) - 1) : GapAfter(k) > call.arg.gap_threshold }
    IN  /\ Len(call.ret.boundaries) = Cardinality(splits)
        /\ \A k \in splits :
             call.ret.boundaries[1 + Cardinality({ j \in splits : j < k })]
               = Ascending[k].max[1] + Ascending[k + 1].min[1]
        /\ Len(call.ret.columns) = Len(call.ret.boundaries) + 1

\* C22 witness: of three words the first two were exactly gap_threshold
\* apart and got no boundary, the last two were further apart and got one.
C22_Witness ==
  /\ Done("detect_columns")
  /\ Len(call.arg.words) = 3
  /\ call.arg.gap_threshold = 15
  /\ GapAfter(1) = call.arg.gap_threshold
  /\ GapAfter(2) > call.arg.gap_threshold
  /\ call.ret.boundaries = << Ascending[2].max[1] + Ascending[3].min[1] >>
  /\ Len(call.ret.columns) = 2

\* C23: two words adjacent in ascending left-x order are in the same item
\* when their gap is at most gap_threshold and in different items when it
\* exceeds gap_threshold.
C23_GapSegmentation ==
  Done("detect_columns") =>
    \A k \in 1..(Len(Ascending) - 1) :
      (GapAfter(k) <= call.arg.gap_threshold)
        <=> (ColumnHolding(Ascending[k]) = ColumnHolding(Ascending[k + 1]))

\* C24: every word of a column has exactly (column index) boundaries strictly
\* left of its centre, a centre on a boundary counting as left of it; the
\* columns together hold every input word as often as the input does, and
\* there is one item for each non-empty column.
C24_EveryWordInExactlyOneColumn ==
  Done("detect_columns") =>
    LET columns == call.ret.columns
        words == call.arg.words
    IN  /\ \A c \in 1..Len(columns) : \A i \in 1..Len(columns[c]) :
             Cardinality({ k \in 1..Len(call.ret.boundaries) :
                             TwiceCenterX(columns[c][i]) > call.ret.boundaries[k] })
               = c - 1
        /\ \A i \in 1..Len(words) :
             /\ Cardinality({ c \in 1..Len(columns) : Count(columns[c], words[i]) > 0 }) = 1
             /\ Count(columns[ColumnHolding(words[i])], words[i]) = Count(words, words[i])
        /\ \A c \in 1..Len(columns) : \A i \in 1..Len(columns[c]) :
             Count(words, columns[c][i]) > 0
        /\ Len(call.ret.items) = Len(ItemColumns)

\* C24 witness: a word whose centre lies exactly on the boundary went to the
\* column left of it.
C24_Witness ==
  /\ Done("detect_columns")
  /\ Len(call.ret.boundaries) = 1
  /\ \E i \in 1..Len(call.ret.columns[1]) :
       TwiceCenterX(call.ret.columns[1][i]) = call.ret.boundaries[1]
  /\ call.ret.columns[2] # << >>

\* C25: the items are in ascending x order: every word centre of an earlier
\* item is at most every word centre of a later one.
C25_ItemsLeftToRight ==
  Done("detect_columns") =>
    /\ Len(call.ret.items) = Len(ItemColumns)
    /\ \A c \in 1..Len(ItemColumns) : \A d \in (c + 1)..Len(ItemColumns) :
         \A i \in 1..Len(ItemColumns[c]) : \A j \in 1..Len(ItemColumns[d]) :
           TwiceCenterX(ItemColumns[c][i]) <= TwiceCenterX(ItemColumns[d][j])

\* C25 witness: the input listed the right word first, and the items came
\* back left word first.
C25_Witness ==
  /\ Done("detect_columns")
  /\ Len(call.arg.words) = 2
  /\ call.arg.words[1].min[1] > call.arg.words[2].max[1]
  /\ Len(call.ret.items) = 2
  /\ call.ret.items[1].name = << call.arg.words[2].text >>
  /\ call.ret.items[2].name = << call.arg.words[1].text >>

\* C26: the name of an item is the texts of its column's words with one " "
\* between neighbours, and the column lists its words in the order of the
\* input slice.
C26_NameInInputOrder ==
  Done("detect_columns") =>
    /\ Len(call.ret.items) = Len(ItemColumns)
    /\ \A c \in 1..Len(ItemColumns) :
         LET col == ItemColumns[c]
             name == call.ret.items[c].name
         IN  /\ Len(name) = 2 * Len(col) - 1
             /\ \A i \in 1..Len(col) : name[2 * i - 1] = col[i].text
             /\ \A i \in 1..(Len(col) - 1) : name[2 * i] = " "
             /\ col = SelectSeq(call.arg.words, LAMBDA w : Count(col, w) > 0)

\* C26 witness: two words of one item whose input order is the reverse of
\* their left-x order were named in input order.
C26_Witness ==
  /\ Done("detect_columns")
  /\ Len(call.arg.words) = 2
  /\ call.arg.words[1].min[1] > call.arg.words[2].min[1]
  /\ Len(call.ret.items) = 1
  /\ call.ret.items[1].name
       = << call.arg.words[1].text, " ", call.arg.words[2].text >>

\* C27: the bounds of an item are the union of the boxes of its column's
\* words: on each axis the least min and the greatest max.
C27_BoundsAreUnion ==
  Done("detect_columns") =>
    /\ Len(call.ret.items) = Len(ItemColumns)
    /\ \A c \in 1..Len(ItemColumns) : \A axis \in 1..2 :
         LET col == ItemColumns[c]
             bounds == call.ret.items[c].bounds
         IN  /\ \A i \in 1..Len(col) :
                  bounds.min[axis] <= col[i].min[axis] /\ col[i].max[axis] <= bounds.max[axis]
             /\ \E i \in 1..Len(col) : bounds.min[axis] = col[i].min[axis]
             /\ \E i \in 1..Len(col) : bounds.max[axis] = col[i].max[axis]

\* C27 witness: an item of two words, neither of whose boxes contains the
\* other, got the box around both.
C27_Witness ==
  /\ Done("detect_columns")
  /\ Len(call.arg.words) = 2
  /\ Len(call.ret.items) = 1
  /\ call.ret.items[1].bounds.min = call.arg.words[1].min
  /\ call.ret.items[1].bounds.max = call.arg.words[2].max
  /\ call.arg.words[1].max[1] < call.arg.words[2].max[1]
  /\ call.arg.words[1].max[2] < call.arg.words[2].max[2]

\* C28: detect_columns does not panic; on an empty slice it returns no item
\* and on a non-empty slice at least one.
C28_EmptyInEmptyOut ==
  Done("detect_columns") =>
    /\ ~call.ret.panicked
    /\ call.arg.words = << >> => call.ret.items = << >>
    /\ call.arg.words # << >> => Len(call.ret.items) >= 1

\* C28 witness: detect_columns returned from an empty slice.
C28_Witness ==
  /\ Done("detect_columns")
  /\ call.arg.words = << >>
  /\ call.ret.items = << >>
  /\ ~call.ret.panicked

\* The task whose result get_ocr_result handed over last.
LastHanded ==
  CHOOSE t \in 1..Len(tasks) :
    /\ tasks[t].st = "taken" /\ tasks[t].res = "Ok"
    /\ \A u \in (t + 1)..Len(tasks) : ~(tasks[u].st = "taken" /\ tasks[u].res = "Ok")

\* C29: a successful handoff leaves the items container, once the commands
\* it queued are applied, with exactly the items of the new result as its
\* children, in order: none of an earlier result, none of the new one
\* missing.
C29_ResultReplacesAllItems ==
  [][ApplyDeferred
       => children' = [i \in 1..tasks[LastHanded].n |->
                         [task |-> LastHanded, idx |-> i]]]_vars

\* The recognised lines of a returned call that were not None, in order.
Retained == SelectSeq(call.arg.line_texts, LAMBDA l : l # None)

\* C30: a line for which recognition returned nothing gives no Line and no
\* Word; the k-th retained line has the Line whose word_range starts where
\* the range before it ended (the first at 0) and spans its words, so the
\* ranges are contiguous, ascending, and end at words.len().
C30_WordRangesContiguous ==
  Done("assemble_lines") =>
    LET lines == call.ret.lines
        words == call.ret.words
    IN  /\ Len(lines) = Len(Retained)
        /\ \A k \in 1..Len(lines) :
             /\ lines[k].word_range[1] = IF k = 1 THEN 0 ELSE lines[k - 1].word_range[2]
             /\ lines[k].word_range[2] - lines[k].word_range[1] = Len(Retained[k][1])
             /\ \A j \in 1..Len(Retained[k][1]) :
                  words[lines[k].word_range[1] + j].text = Retained[k][1][j]
        /\ Len(words) = IF lines = << >> THEN 0 ELSE lines[Len(lines)].word_range[2]

\* C30 witness: of three lines the middle one was not recognised; the two
\* others gave two Lines, the second starting where the first ended.
C30_Witness ==
  /\ Done("assemble_lines")
  /\ Len(call.arg.line_texts) = 3
  /\ call.arg.line_texts[1] # None
  /\ call.arg.line_texts[2] = None
  /\ call.arg.line_texts[3] # None
  /\ Len(call.ret.lines) = 2
  /\ call.ret.lines[1].word_range = << 0, Len(call.arg.line_texts[1][1]) >>
  /\ call.ret.lines[2].word_range[1] = call.ret.lines[1].word_range[2]
  /\ call.ret.lines[2].word_range[2] = Len(call.ret.words)

\* C34: whenever get_latest_rgba returns nothing, the stored buffer is what
\* it was before the call (the metadata is never written), so the frame is
\* still there when matching metadata arrives.
C34_NoFrameLeavesBufferStored ==
  (Done("get_latest_rgba") /\ call.ret.img = None)
    => call.ret.buf = call.arg.buf

\* C35: for a non-empty word list whose boxes have left <= right and a
\* non-negative threshold, detect_columns leaves no column empty: it returns
\* one item per column, boundaries + 1 of them, and the boundaries are
\* strictly ascending.
C35_NoEmptyColumn ==
  (Done("detect_columns") /\ call.arg.words # << >>
     /\ call.arg.gap_threshold >= 0
     /\ \A i \in 1..Len(call.arg.words) :
          call.arg.words[i].min[1] <= call.arg.words[i].max[1])
    => /\ ~call.ret.panicked
       /\ \A c \in 1..Len(call.ret.columns) : call.ret.columns[c] # << >>
       /\ Len(call.ret.items) = Len(call.ret.boundaries) + 1
       /\ \A k \in 1..(Len(call.ret.boundaries) - 1) :
            call.ret.boundaries[k] < call.ret.boundaries[k + 1]

\* C35 witness: three words, one of them spanning its left-x neighbour, were
\* clustered around two boundaries into three items.
C35_Witness ==
  /\ Done("detect_columns")
  /\ Len(call.arg.words) = 3
  /\ \E i, j \in 1..3 :
       /\ call.arg.words[i].min[1] < call.arg.words[j].min[1]
       /\ call.arg.words[j].max[1] < call.arg.words[i].max[1]
  /\ Len(call.ret.boundaries) >= 1
  /\ Len(call.ret.items) = Len(call.ret.boundaries) + 1

\* The layout's region lies inside its reference resolution, per axis.
RegionInsideReference(layout) ==
  \A k \in 1..2 : layout.offset[k] + layout.size[k] <= layout.reference_resolution[k]

\* C36: for a layout whose region lies inside its reference resolution and
\* any frame size, the bounds get_ocr_bounds computes lie inside the frame:
\* min <= max <= the frame's width and height, per axis.
C36_BoundsInsideFrame ==
  (Done("get_ocr_bounds") /\ RegionInsideReference(call.arg.layout))
    => \A k \in 1..2 :
         /\ call.ret.min[k] <= call.ret.max[k]
         /\ call.ret.max[k] <= call.arg.img_size[k]

\* C36 witness: the default layout (reference 1920x1080) met a frame that is
\* larger than the reference and no multiple of it, and the bounds have an
\* area inside the frame.
C36_Witness ==
  /\ Done("get_ocr_bounds")
  /\ RegionInsideReference(call.arg.layout)
  /\ call.arg.layout.offset = <<478, 411>>
  /\ call.arg.img_size = <<2560, 1440>>
  /\ ~ZeroArea(call.ret)
  /\ call.ret.max[1] <= 2560 /\ call.ret.max[2] <= 1440

\* q is what one call of viewport_to_world_2d returned, unwrapped, for the
\* point p and the camera of setup.
IsConversion(p, q) ==
  \E converts \in BOOLEAN :
    viewport_to_world_2d([entity |-> "Camera2d", converts |-> converts], p)
      = [ok |-> TRUE, val |-> q]

\* get_ocr_result takes the successful result of task t in this step and
\* hands it over: it does not panic on it.
Handoff(t) ==
  /\ tasks[t].st = "finished"
  /\ tasks[t].res = "Ok"
  /\ tasks'[t].st = "taken"
  /\ ~crashed'

\* detect_once returns the OcrResults of task t in this step.
Clustered(t) == tasks[t].st = "assembling" /\ tasks'[t].st = "finished"

\* The items detect_once clustered for task t, in image coordinates.
ClusteredItems(t) ==
  detect_columns(RecognisedWords(tasks[t].n, tasks[t].ocr_bounds), GapThreshold).items

\* C31: the image-to-screen transform is applied exactly once per result
\* set, after clustering and before the handoff.  The result a task returns
\* holds items clustered from words in image coordinates; the step of
\* get_ocr_result that hands it over leaves every word, line and item box
\* and the detection region as one conversion of what it was, and gives the
\* container that region; no other step changes a box, so no box is
\* converted again and a result that get_ocr_result panics on stays as it
\* was; and when the sync point makes the items children of the container,
\* each child's box is one conversion of the box the clustering gave it.
C31_TransformOncePerResult ==
  [][/\ \A t \in 1..Len(tasks) :
          LET before == tasks[t].result
              after == tasks'[t].result
          IN  /\ Clustered(t) =>
                    /\ after.words = RecognisedWords(tasks[t].n, tasks[t].ocr_bounds)
                    /\ after.items = ClusteredItems(t)
                    /\ after.detect_aabb.min = tasks[t].ocr_bounds.min
                    /\ after.detect_aabb.max = tasks[t].ocr_bounds.max
              /\ Handoff(t) =>
                    /\ Len(after.words) = Len(before.words)
                    /\ Len(after.lines) = Len(before.lines)
                    /\ Len(after.items) = Len(before.items)
                    /\ \A i \in 1..Len(before.words) :
                         /\ IsConversion(before.words[i].min, after.words[i].min)
                         /\ IsConversion(before.words[i].max, after.words[i].max)
                    /\ \A i \in 1..Len(before.lines) :
                         /\ IsConversion(before.lines[i].bounds.min,
                                         after.lines[i].bounds.min)
                         /\ IsConversion(before.lines[i].bounds.max,
                                         after.lines[i].bounds.max)
                    /\ \A i \in 1..Len(before.items) :
                         /\ IsConversion(before.items[i].bounds.min,
                                         after.items[i].bounds.min)
                         /\ IsConversion(before.items[i].bounds.max,
                                         after.items[i].bounds.max)
                         /\ after.items[i].name = before.items[i].name
                    /\ IsConversion(before.detect_aabb.min, after.detect_aabb.min)
                    /\ IsConversion(before.detect_aabb.max, after.detect_aabb.max)
                    /\ container'.aabb = after.detect_aabb
              /\ (~Clustered(t) /\ ~Handoff(t)) => after = before
     /\ ApplyDeferred =>
          \A i \in 1..Len(children') :
             LET t == children'[i].task
                 idx == children'[i].idx
             IN  /\ tasks[t].st = "taken"
                 /\ IsConversion(ClusteredItems(t)[idx].bounds.min,
                                 tasks[t].result.items[idx].bounds.min)
                 /\ IsConversion(ClusteredItems(t)[idx].bounds.max,
                                 tasks[t].result.items[idx].bounds.max)]_vars

\* C31 witness: a result of two items was handed over and the commands of
\* the handoff are applied; its first word, its line, its second item and
\* the container's region are image points converted once by the camera, and
\* both items are children of the container.
C31_Witness ==
  \E t \in 1..Len(tasks) :
    /\ tasks[t].st = "taken"
    /\ tasks[t].res = "Ok"
    /\ tasks[t].n = 2
    /\ Len(tasks[t].result.items) = 2
    /\ tasks[t].result.words[1].min = tasks[t].ocr_bounds.min \o << "Camera2d" >>
    /\ tasks[t].result.lines[1].bounds.min
         = tasks[t].ocr_bounds.min \o << "Camera2d" >>
    /\ tasks[t].result.items[2].bounds.min
         = << tasks[t].ocr_bounds.min[1] + 40, tasks[t].ocr_bounds.min[2], "Camera2d" >>
    /\ container.aabb.max = tasks[t].ocr_bounds.max \o << "Camera2d" >>
    /\ commands = << >>
    /\ children = << [task |-> t, idx |-> 1], [task |-> t, idx |-> 2] >>

\* C32: a result get_ocr_result hands over was computed from the frame the
\* most recent entry into the Ocr phase consumed: when it is handed over,
\* the last run of start_ocr_task did not find an earlier task held.
C32_ResultIsOfLatestTrigger ==
  [][\A t \in 1..Len(tasks) : Handoff(t) => last_start.outcome # "held"]_vars

\* C33: the phase moves from Ocr to Displaying only once the result of the
\* cycle has been consumed and price data arrives for one of its items: no
\* task is held and the container has items.
C33_DisplayingOnlyAfterResult ==
  [][(phase = "Ocr" /\ phase' = "Displaying")
       => (current_task = NoTask /\ children # << >>)]_vars

\* C37: the items container never holds more than four items, and what it
\* holds are the first items of one handed-over result, in the result's
\* left-to-right order: all of them if there are at most four, the first
\* four otherwise.  The order is that of the x coordinates in the image,
\* which a converted point keeps as its first entry.
C37_AtMostFourItems ==
  /\ Len(children) <= MaxItemIdx + 1
  /\ children # << >> =>
       LET t == children[1].task
           items == tasks[t].result.items
       IN  /\ tasks[t].st = "taken"
           /\ Len(children) = Min(Len(items), MaxItemIdx + 1)
           /\ \A i \in 1..Len(children) : children[i] = [task |-> t, idx |-> i]
           /\ \A i \in 1..Len(items) : \A j \in 1..Len(items) :
                i < j => items[i].bounds.min[1] < items[j].bounds.min[1]

\* C37 witness: a result of five items was handed over and the container
\* holds its first four.
C37_Witness ==
  \E t \in 1..Len(tasks) :
    /\ tasks[t].st = "taken"
    /\ Len(tasks[t].result.items) = 5
    /\ Len(children) = 4
    /\ children[4] = [task |-> t, idx |-> 4]

\* C38: a delayed return to Waiting fires in the Displaying phase of the
\* cycle that scheduled it, never after a new key press has begun another
\* cycle: whenever command_after runs a close the phase is Displaying, or
\* still Ocr with the move to Displaying that queued the close pending.
C38_CloseBelongsToItsCycle ==
  [][delayed' < delayed
       => \/ phase = "Displaying"
          \/ phase = "Ocr" /\ next_phase = "Displaying"]_vars

\* The entries of ordered that point at key k.
EntriesOf(k) == { t \in DOMAIN data.ordered : data.ordered[t] = k }

\* C39: map and ordered stay consistent: every key of map is in ordered
\* exactly once, under its current last_fetch; ordered has no other entry;
\* and the key get_oldest returns has the smallest last_fetch of all stored
\* items.
C39_MapAndOrderedConsistent ==
  /\ \A k \in DOMAIN data.map : EntriesOf(k) = { data.map[k].last_fetch }
  /\ \A t \in DOMAIN data.ordered : data.ordered[t] \in DOMAIN data.map
  /\ data.map # << >> =>
       /\ get_oldest(data) # None
       /\ \A k \in DOMAIN data.map :
            data.map[get_oldest(data)[1][2]].last_fetch <= data.map[k].last_fetch

====
